---- MODULE Spec2Model ----
(***************************************************************************)
(* Mortgage affordability calculator: the calculation engine of            *)
(* src/src/utils/mortgageCalculations.ts and the callers that drive it.    *)
(*                                                                         *)
(* Units.  The source computes in JavaScript doubles; the model computes   *)
(* in integers:                                                            *)
(*   - interest rates, rate adjustments, property-tax rates and PMI/MIP    *)
(*     rates are in thousandths of a percentage point (0.125% is 125,      *)
(*     7% is 7000, the sentinels 99 and 999 are 99000 and 999000);         *)
(*   - LTV and down-payment percentages are in tenths of a percentage      *)
(*     point (80% is 800, 96.5% is 965: the LTV slider moves in steps of   *)
(*     0.5);                                                               *)
(*   - DTI limits are whole percentages (36, 43, 45, 50);                  *)
(*   - incomes, debts, insurance premiums, prices and payments are whole   *)
(*     dollars; a loan amount and an annual property tax, which the        *)
(*     callers derive as fractions of a price, are in thousandths of a     *)
(*     dollar;                                                             *)
(*   - the dimensionless per-month factors of the amortization formulas    *)
(*     are fixed-point numbers with nine decimals.                         *)
(* A "number | null" of the source is the empty sequence (null) or a       *)
(* one-element sequence holding the number.                                *)
(***************************************************************************)
EXTENDS Integers, Sequences, FiniteSets, TLC

VARIABLES
    loanType,           \* userData.loanDetails.loanType
    ltv,                \* userData.loanDetails.ltv
    ficoScore,          \* userData.financials.ficoScore
    mitigatingFactors,  \* userData.financials.mitigatingFactors
    interestRates,      \* userData.loanDetails.interestRates
    annualIncome,       \* userData.financials.annualIncome
    monthlyDebts,       \* userData.financials.monthlyDebts
    propertyTax,        \* userData.loanDetails.propertyTax (a rate)
    propertyInsurance,  \* userData.loanDetails.propertyInsurance
    pmiRate,            \* the mortgage-insurance rate handed to the solver
    termYears,          \* the loan term handed to the solver
    ficoAdjustment,     \* result of getFicoRateAdjustment, NULL before the call
    adjustedRate,       \* result of calculateAdjustedRate, NULL before the call
    maxDTI,             \* result of calculateMaxDTI, NULL before the call
    maxPurchasePrice,   \* result of calculateMaxPurchasePrice, NULL before
    monthlyPayment      \* result of calculateMonthlyPayment, NULL before

VARIABLES
    argLoanAmount,      \* argument loanAmount of a direct call (dollars)
    argInterestRate,    \* argument interestRate of a direct call
    argPropertyTaxAmount, \* argument propertyTax of a direct call (dollars)
    argInsuranceAmount, \* argument propertyInsurance of a direct call
    formData,           \* LoanDetailsStep's formData: loanType, ltv, ongoingMIP
    ongoingMIP,         \* userData.loanDetails.ongoingMIP
    ltvAdjustment,      \* result of getLtvRateAdjustment, NULL before the call
    mipRates,           \* result of getFhaMipRates, NULL before the call
    nextFicoBand,       \* result of getNextFicoBand, NULL before the call
    lowerLtvOption,     \* result of getLowerLtvOption, NULL before the call
    pmiRates            \* the insurance rates calculateResults determined

inputs == <<loanType, ltv, ficoScore, mitigatingFactors, interestRates,
            annualIncome, monthlyDebts, propertyTax, propertyInsurance,
            pmiRate, termYears, argLoanAmount, argInterestRate,
            argPropertyTaxAmount, argInsuranceAmount, formData, ongoingMIP>>
outputs == <<ficoAdjustment, adjustedRate, maxDTI, maxPurchasePrice,
             monthlyPayment>>
lookups == <<ltvAdjustment, mipRates, nextFicoBand, lowerLtvOption, pmiRates>>

VARIABLES
    location,           \* userData.location (city, state, zipCode)
    results,            \* userData.results
    goals,              \* userData.goals
    currentStep,        \* the context's currentStep
    guardPending,       \* MortgageCalculator's step validation effect is due
    redirections,       \* redirections of the effect since the last handler
    validationError,    \* ResultsStep's validationError
    isCalculating,      \* ResultsStep's isCalculating
    formFetched,        \* formData's interestRates, propertyTax and
                        \* propertyInsurance
    externalFetch,      \* NULL while LoanDetailsStep is not mounted, else
                        \* the state of its fetchExternalData
    request,            \* the call of fetchPerplexityData in progress
    response,           \* the response the network has delivered
    ratesResult         \* what getInterestRates resolved with

app == <<location, results, goals, currentStep, guardPending, redirections,
         validationError, isCalculating, formFetched, externalFetch, request,
         response, ratesResult>>
vars == <<inputs, outputs, lookups, app>>

-----------------------------------------------------------------------------
(* Values of the source's types *)

NULL == <<>>
Some(x) == <<x>>
LoanTypes == {"conventional", "fha"}

\* whole percent -> tenths of a percent
Tenths(p) == p * 10

Max(a, b) == IF a >= b THEN a ELSE b
Range(s) == {s[i] : i \in DOMAIN s}

-----------------------------------------------------------------------------
(* Arithmetic on doubles, in integers that stay below 2^31 *)

Nano == 10^9

\* One binary digit of the multiplier b in s = <<b, pq, pr, sq, sr>>, where
\* a * 2^i = pq * c + pr for the digits consumed so far and sq * c + sr is
\* the sum of those powers whose digit was one.
BitStep(s, c) ==
    LET odd == s[1] % 2 = 1
        more == s[1] \div 2 > 0
        carry == odd /\ s[5] >= c - s[3]
        double == s[3] >= c - s[3]
    IN  <<s[1] \div 2,
          IF ~more THEN s[2] ELSE 2 * s[2] + (IF double THEN 1 ELSE 0),
          IF ~more THEN s[3]
          ELSE IF double THEN s[3] - (c - s[3]) ELSE 2 * s[3],
          IF ~odd THEN s[4] ELSE s[4] + s[2] + (IF carry THEN 1 ELSE 0),
          IF ~odd THEN s[5]
          ELSE IF carry THEN s[5] - (c - s[3]) ELSE s[5] + s[3]>>

RECURSIVE MulDivLoop(_, _)
MulDivLoop(s, c) ==
    IF s[1] = 0 THEN <<s[4], s[5]>>
    ELSE MulDivLoop(BitStep(BitStep(BitStep(BitStep(s, c), c), c), c), c)

\* <<q, r>> with a * b = q * c + r and 0 <= r < c, for 0 <= a < c and b >= 0
MulDivQR(a, b, c) == MulDivLoop(<<b, 0, a, 0, 0>>, c)

\* floor(a * b / c) for a, b >= 0 and c > 0
MulDiv(a, b, c) == (a \div c) * b + MulDivQR(a % c, b, c)[1]

\* TRUE iff a * b is an exact multiple of c
MulDivExact(a, b, c) == MulDivQR(a % c, b, c)[2] = 0

\* One binary digit of the exponent n in s = <<n, square, product>>
PowStep(s) ==
    <<s[1] \div 2,
      IF s[1] \div 2 > 0 THEN MulDiv(s[2], s[2], Nano) ELSE s[2],
      IF s[1] % 2 = 1 THEN MulDiv(s[3], s[2], Nano) ELSE s[3]>>

RECURSIVE PowLoop(_)
PowLoop(s) == IF s[1] = 0 THEN s[3] ELSE PowLoop(PowStep(s))

\* x^n for a nine-decimal fixed-point x in [0, 1]
PowNano(x, n) == PowLoop(<<n, x, Nano>>)

-----------------------------------------------------------------------------
(* Constant tables of mortgageCalculations.ts *)

FHA_UPFRONT_MIP == 1750

FHA_ANNUAL_MIP ==
    [below15Years_below90LTV |-> 450,
     below15Years_above90LTV |-> 700,
     above15Years_below90LTV |-> 500,
     above15Years_above90LTV |-> 550]

\* a copy-and-paste slip: the two default limits exchanged
DTI_LIMITS_DefaultsSwapped ==
    [conventional |->
        [default |-> 43,
         strongFactors |-> [highFICO |-> 45, reserves |-> 45, lowLTV |-> 45]],
     fha |->
        [default |-> 36,
         strongFactors |-> [highFICO |-> 50, reserves |-> 50,
                            compensatingFactors |-> 50]]]

DTI_LIMITS ==
    [conventional |->
        [default |-> 36,
         strongFactors |-> [highFICO |-> 45, reserves |-> 45, lowLTV |-> 45]],
     fha |->
        [default |-> 43,
         strongFactors |-> [highFICO |-> 50, reserves |-> 50,
                            compensatingFactors |-> 50]]]

\* a table typo: the two lowest FHA bands exchanged
FICO_RATE_ADJUSTMENTS_LowBandsSwapped ==
    [conventional |->
        ("740+" :> 0 @@ "720-739" :> 125 @@ "700-719" :> 250 @@
         "680-699" :> 375 @@ "660-679" :> 500 @@ "640-659" :> 750 @@
         "620-639" :> 1000),
     fha |->
        ("740+" :> 0 @@ "720-739" :> 0 @@ "700-719" :> 125 @@
         "680-699" :> 250 @@ "660-679" :> 250 @@ "640-659" :> 250 @@
         "620-639" :> 250 @@ "580-619" :> 750 @@ "500-579" :> 500)]

FICO_RATE_ADJUSTMENTS ==
    [conventional |->
        ("740+" :> 0 @@ "720-739" :> 125 @@ "700-719" :> 250 @@
         "680-699" :> 375 @@ "660-679" :> 500 @@ "640-659" :> 750 @@
         "620-639" :> 1000),
     fha |->
        ("740+" :> 0 @@ "720-739" :> 0 @@ "700-719" :> 125 @@
         "680-699" :> 250 @@ "660-679" :> 250 @@ "640-659" :> 250 @@
         "620-639" :> 250 @@ "580-619" :> 500 @@ "500-579" :> 750)]

LTV_RATE_ADJUSTMENTS ==
    ("below60" :> -250 @@ "60-70" :> -125 @@ "70-75" :> 0 @@ "75-80" :> 0 @@
     "80-85" :> 125 @@ "85-90" :> 250 @@ "90-95" :> 375 @@ "95-97" :> 500 @@
     "above97" :> 750)

\* the value getFicoRateAdjustment returns for a conventional loan below 620
CONVENTIONAL_BELOW_620 == 999000

\* the value calculateAdjustedRate returns for a null base rate
NULL_BASE_RATE == 99000

\* the floor calculateAdjustedRate clamps to (0.1%)
MIN_ADJUSTED_RATE == 100

-----------------------------------------------------------------------------
(* Rate adjustment engine *)

getFicoRateAdjustment(fico, type) ==
    LET adjustments == FICO_RATE_ADJUSTMENTS[type] IN
    IF fico >= 740 THEN adjustments["740+"]
    ELSE IF fico >= 720 THEN adjustments["720-739"]
    ELSE IF fico >= 700 THEN adjustments["700-719"]
    ELSE IF fico >= 680 THEN adjustments["680-699"]
    ELSE IF fico >= 660 THEN adjustments["660-679"]
    ELSE IF fico >= 640 THEN adjustments["640-659"]
    ELSE IF fico >= 620 THEN adjustments["620-639"]
    ELSE IF type = "fha" /\ fico >= 580 THEN adjustments["580-619"]
    ELSE IF type = "fha" /\ fico >= 500 THEN adjustments["500-579"]
    ELSE IF type = "conventional" THEN CONVENTIONAL_BELOW_620
    ELSE adjustments["500-579"]

\* "below 97" in place of "at or below 97" on line 99
getLtvRateAdjustment_StrictTop(l) ==
    IF l < Tenths(60) THEN LTV_RATE_ADJUSTMENTS["below60"]
    ELSE IF l < Tenths(70) THEN LTV_RATE_ADJUSTMENTS["60-70"]
    ELSE IF l < Tenths(75) THEN LTV_RATE_ADJUSTMENTS["70-75"]
    ELSE IF l < Tenths(80) THEN LTV_RATE_ADJUSTMENTS["75-80"]
    ELSE IF l < Tenths(85) THEN LTV_RATE_ADJUSTMENTS["80-85"]
    ELSE IF l < Tenths(90) THEN LTV_RATE_ADJUSTMENTS["85-90"]
    ELSE IF l < Tenths(95) THEN LTV_RATE_ADJUSTMENTS["90-95"]
    ELSE IF l < Tenths(97) THEN LTV_RATE_ADJUSTMENTS["95-97"]
    ELSE LTV_RATE_ADJUSTMENTS["above97"]

getLtvRateAdjustment(l) ==
    IF l < Tenths(60) THEN LTV_RATE_ADJUSTMENTS["below60"]
    ELSE IF l < Tenths(70) THEN LTV_RATE_ADJUSTMENTS["60-70"]
    ELSE IF l < Tenths(75) THEN LTV_RATE_ADJUSTMENTS["70-75"]
    ELSE IF l < Tenths(80) THEN LTV_RATE_ADJUSTMENTS["75-80"]
    ELSE IF l < Tenths(85) THEN LTV_RATE_ADJUSTMENTS["80-85"]
    ELSE IF l < Tenths(90) THEN LTV_RATE_ADJUSTMENTS["85-90"]
    ELSE IF l < Tenths(95) THEN LTV_RATE_ADJUSTMENTS["90-95"]
    ELSE IF l <= Tenths(97) THEN LTV_RATE_ADJUSTMENTS["95-97"]
    ELSE LTV_RATE_ADJUSTMENTS["above97"]

\* the clamp of line 132 left out
calculateAdjustedRate_NoClamp(rates, fico, l, type) ==
    LET baseRate == rates[type] IN
    IF baseRate = NULL THEN NULL_BASE_RATE
    ELSE baseRate[1] + getFicoRateAdjustment(fico, type)
         + getLtvRateAdjustment(l)

calculateAdjustedRate(rates, fico, l, type) ==
    LET baseRate == rates[type] IN
    IF baseRate = NULL THEN NULL_BASE_RATE
    ELSE LET adjusted == baseRate[1] + getFicoRateAdjustment(fico, type)
                         + getLtvRateAdjustment(l)
         IN  Max(adjusted, MIN_ADJUSTED_RATE)

-----------------------------------------------------------------------------
(* DTI policy engine *)

Includes(s, x) == \E i \in DOMAIN s : s[i] = x

\* "exactly two factors" in place of "two or more" on line 160
calculateMaxDTI_ExactlyTwo(fico, l, type, factors) ==
    LET dtiLimits == DTI_LIMITS[type]
        d0 == dtiLimits.default
    IN  IF type = "conventional"
        THEN LET d1 == IF fico >= 720 THEN dtiLimits.strongFactors.highFICO
                       ELSE d0
                 d2 == IF Includes(factors, "reserves")
                       THEN Max(d1, dtiLimits.strongFactors.reserves) ELSE d1
                 d3 == IF l <= Tenths(75)
                       THEN Max(d2, dtiLimits.strongFactors.lowLTV) ELSE d2
             IN  d3
        ELSE LET d1 == IF fico >= 680 THEN dtiLimits.strongFactors.highFICO
                       ELSE d0
                 d2 == IF Includes(factors, "reserves")
                       THEN Max(d1, dtiLimits.strongFactors.reserves) ELSE d1
                 d3 == IF Len(factors) = 2
                       THEN Max(d2, dtiLimits.strongFactors.compensatingFactors)
                       ELSE d2
             IN  d3

calculateMaxDTI(fico, l, type, factors) ==
    LET dtiLimits == DTI_LIMITS[type]
        d0 == dtiLimits.default
    IN  IF type = "conventional"
        THEN LET d1 == IF fico >= 720 THEN dtiLimits.strongFactors.highFICO
                       ELSE d0
                 d2 == IF Includes(factors, "reserves")
                       THEN Max(d1, dtiLimits.strongFactors.reserves) ELSE d1
                 d3 == IF l <= Tenths(75)
                       THEN Max(d2, dtiLimits.strongFactors.lowLTV) ELSE d2
             IN  d3
        ELSE LET d1 == IF fico >= 680 THEN dtiLimits.strongFactors.highFICO
                       ELSE d0
                 d2 == IF Includes(factors, "reserves")
                       THEN Max(d1, dtiLimits.strongFactors.reserves) ELSE d1
                 d3 == IF Len(factors) >= 2
                       THEN Max(d2, dtiLimits.strongFactors.compensatingFactors)
                       ELSE d2
             IN  d3

-----------------------------------------------------------------------------
(* Amortization and affordability solver *)

\* interestRate / 100 / 12, with nine decimals
MonthlyRate(interestRate) == MulDiv(interestRate, 2500, 3)

\* interest without compounding: the monthly rate plus one n-th of the
\* principal
AnnuityFactor_NoCompounding(monthlyRate, totalPayments) ==
    monthlyRate + Nano \div totalPayments

\* monthlyRate * (1+monthlyRate)^n / ((1+monthlyRate)^n - 1), with nine
\* decimals, for monthlyRate > 0.  The quotient of the two powers is
\* evaluated as 1 / (1 - (1+monthlyRate)^(-n)), which is the same number and
\* keeps every intermediate value below one.
AnnuityFactor(monthlyRate, totalPayments) ==
    LET discount == MulDiv(Nano, Nano, Nano + monthlyRate)
    IN  MulDiv(monthlyRate, Nano, Nano - PowNano(discount, totalPayments))

\* Math.floor(n / d) for d > 0
Floor(n, d) == n \div d

\* Math.round(n / d) for d > 0: JavaScript rounds half up
Round(n, d) == (2 * n + d) \div (2 * d)

\* the zero-rate branch dividing by the years in place of the payments
calculateMonthlyPayment_ZeroRateByYears(loanAmount, interestRate, term, propertyTaxAmount, insuranceAmount, pmi) ==
    LET monthlyRate == MonthlyRate(interestRate)
        totalPayments == term * 12
        monthlyPrincipalAndInterest ==
            IF monthlyRate = 0 THEN loanAmount \div term
            ELSE MulDiv(loanAmount,
                        AnnuityFactor(monthlyRate, totalPayments), Nano)
        monthlyPropertyTax == propertyTaxAmount \div 12
        monthlyInsurance == insuranceAmount \div 12
        monthlyPMI == MulDiv(loanAmount, pmi, 1200000)
        totalMonthlyPayment == monthlyPrincipalAndInterest + monthlyPropertyTax
                               + monthlyInsurance + monthlyPMI
    IN  Round(totalMonthlyPayment, 1000)

\* loanAmount, propertyTaxAmount and insuranceAmount in thousandths of a
\* dollar; the result in whole dollars
calculateMonthlyPayment(loanAmount, interestRate, term, propertyTaxAmount, insuranceAmount, pmi) ==
    LET monthlyRate == MonthlyRate(interestRate)
        totalPayments == term * 12
        monthlyPrincipalAndInterest ==
            IF monthlyRate = 0 THEN loanAmount \div totalPayments
            ELSE MulDiv(loanAmount,
                        AnnuityFactor(monthlyRate, totalPayments), Nano)
        monthlyPropertyTax == propertyTaxAmount \div 12
        monthlyInsurance == insuranceAmount \div 12
        monthlyPMI == MulDiv(loanAmount, pmi, 1200000)
        totalMonthlyPayment == monthlyPrincipalAndInterest + monthlyPropertyTax
                               + monthlyInsurance + monthlyPMI
    IN  Round(totalMonthlyPayment, 1000)

\* annualIncome, debts and annualInsurance in whole dollars; the result in
\* whole dollars.  A loan-to-value ratio of zero makes piMultiplier Infinity
\* in the source, and the quotient a (signed) zero.
calculateMaxPurchasePrice(income, debts, dti, interestRate, propertyTaxRate, annualInsurance, downPaymentPercent, pmi, term) ==
    LET \* (maxMonthlyPayment - monthlyInsuranceRate) * 1200
        budget1200 == income * dti - 1200 * debts - 100 * annualInsurance
        monthlyPropertyTaxRate == MulDiv(propertyTaxRate, 2500, 3)
        loanToValueRatio == 1000 - downPaymentPercent
        effectivePmiRate == MulDiv(pmi * loanToValueRatio, 2500, 3000)
        monthlyRate == MonthlyRate(interestRate)
        totalPayments == term * 12
        piMultiplier ==
            IF monthlyRate = 0
            THEN MulDiv(Nano, 1000, totalPayments * loanToValueRatio)
            ELSE MulDiv(AnnuityFactor(monthlyRate, totalPayments), 1000,
                        loanToValueRatio)
        totalMultiplier == piMultiplier + monthlyPropertyTaxRate
                           + effectivePmiRate
        magnitude == IF budget1200 >= 0 THEN budget1200 ELSE -budget1200
        \* three times |maxHomePrice|: Nano / 1200 = 2500000 / 3
        quotient == MulDiv(magnitude, 2500000, totalMultiplier)
        exact == MulDivExact(magnitude, 2500000, totalMultiplier)
                 /\ quotient % 3 = 0
    IN  IF loanToValueRatio = 0 THEN 0
        ELSE IF budget1200 >= 0 THEN Floor(quotient, 3)
        ELSE IF exact THEN -(quotient \div 3)
        ELSE -(quotient \div 3) - 1

-----------------------------------------------------------------------------
(* Mortgage insurance premiums and the band helpers of the scenarios *)

\* "shorter than 15 years" in place of "15 years or shorter"
getFhaMipRates_StrictTerm(amount, l, term) ==
    LET upfrontMipPercent == FHA_UPFRONT_MIP
        annualMipPercent ==
            IF term < 15
            THEN (IF l <= Tenths(90)
                  THEN FHA_ANNUAL_MIP.below15Years_below90LTV
                  ELSE FHA_ANNUAL_MIP.below15Years_above90LTV)
            ELSE (IF l <= Tenths(90)
                  THEN FHA_ANNUAL_MIP.above15Years_below90LTV
                  ELSE FHA_ANNUAL_MIP.above15Years_above90LTV)
    IN  [upfrontMipPercent |-> upfrontMipPercent,
         annualMipPercent |-> annualMipPercent]

getFhaMipRates(amount, l, term) ==
    LET upfrontMipPercent == FHA_UPFRONT_MIP
        annualMipPercent ==
            IF term <= 15
            THEN (IF l <= Tenths(90)
                  THEN FHA_ANNUAL_MIP.below15Years_below90LTV
                  ELSE FHA_ANNUAL_MIP.below15Years_above90LTV)
            ELSE (IF l <= Tenths(90)
                  THEN FHA_ANNUAL_MIP.above15Years_below90LTV
                  ELSE FHA_ANNUAL_MIP.above15Years_above90LTV)
    IN  [upfrontMipPercent |-> upfrontMipPercent,
         annualMipPercent |-> annualMipPercent]

\* "already in the band from 720" in place of "already at highest band"
getNextFicoBand_StopsAt720(currentFico, type) ==
    IF type = "conventional"
    THEN IF currentFico < 620 THEN Some(620)
         ELSE IF currentFico < 640 THEN Some(640)
         ELSE IF currentFico < 660 THEN Some(660)
         ELSE IF currentFico < 680 THEN Some(680)
         ELSE IF currentFico < 700 THEN Some(700)
         ELSE IF currentFico < 720 THEN Some(720)
         ELSE NULL
    ELSE IF currentFico < 500 THEN NULL
         ELSE IF currentFico < 580 THEN Some(580)
         ELSE IF currentFico < 620 THEN Some(620)
         ELSE IF currentFico < 640 THEN Some(640)
         ELSE IF currentFico < 660 THEN Some(660)
         ELSE IF currentFico < 680 THEN Some(680)
         ELSE IF currentFico < 700 THEN Some(700)
         ELSE IF currentFico < 720 THEN Some(720)
         ELSE NULL

getNextFicoBand(currentFico, type) ==
    IF type = "conventional"
    THEN IF currentFico < 620 THEN Some(620)
         ELSE IF currentFico < 640 THEN Some(640)
         ELSE IF currentFico < 660 THEN Some(660)
         ELSE IF currentFico < 680 THEN Some(680)
         ELSE IF currentFico < 700 THEN Some(700)
         ELSE IF currentFico < 720 THEN Some(720)
         ELSE IF currentFico < 740 THEN Some(740)
         ELSE NULL
    ELSE IF currentFico < 500 THEN NULL
         ELSE IF currentFico < 580 THEN Some(580)
         ELSE IF currentFico < 620 THEN Some(620)
         ELSE IF currentFico < 640 THEN Some(640)
         ELSE IF currentFico < 660 THEN Some(660)
         ELSE IF currentFico < 680 THEN Some(680)
         ELSE IF currentFico < 700 THEN Some(700)
         ELSE IF currentFico < 720 THEN Some(720)
         ELSE IF currentFico < 740 THEN Some(740)
         ELSE NULL

\* "at or above" in place of "above" in every comparison
getLowerLtvOption_Inclusive(currentLtv) ==
    IF currentLtv >= Tenths(97) THEN Some(Tenths(97))
    ELSE IF currentLtv >= Tenths(95) THEN Some(Tenths(95))
    ELSE IF currentLtv >= Tenths(90) THEN Some(Tenths(90))
    ELSE IF currentLtv >= Tenths(85) THEN Some(Tenths(85))
    ELSE IF currentLtv >= Tenths(80) THEN Some(Tenths(80))
    ELSE IF currentLtv >= Tenths(75) THEN Some(Tenths(75))
    ELSE IF currentLtv >= Tenths(70) THEN Some(Tenths(70))
    ELSE IF currentLtv >= Tenths(60) THEN Some(Tenths(60))
    ELSE NULL

getLowerLtvOption(currentLtv) ==
    IF currentLtv > Tenths(97) THEN Some(Tenths(97))
    ELSE IF currentLtv > Tenths(95) THEN Some(Tenths(95))
    ELSE IF currentLtv > Tenths(90) THEN Some(Tenths(90))
    ELSE IF currentLtv > Tenths(85) THEN Some(Tenths(85))
    ELSE IF currentLtv > Tenths(80) THEN Some(Tenths(80))
    ELSE IF currentLtv > Tenths(75) THEN Some(Tenths(75))
    ELSE IF currentLtv > Tenths(70) THEN Some(Tenths(70))
    ELSE IF currentLtv > Tenths(60) THEN Some(Tenths(60))
    ELSE NULL

\* the table entry getFicoRateAdjustment reads for a score: the key of the
\* band, or NULL where it returns 999 without reading the table
FicoBand(fico, type) ==
    IF fico >= 740 THEN Some("740+")
    ELSE IF fico >= 720 THEN Some("720-739")
    ELSE IF fico >= 700 THEN Some("700-719")
    ELSE IF fico >= 680 THEN Some("680-699")
    ELSE IF fico >= 660 THEN Some("660-679")
    ELSE IF fico >= 640 THEN Some("640-659")
    ELSE IF fico >= 620 THEN Some("620-639")
    ELSE IF type = "fha" /\ fico >= 580 THEN Some("580-619")
    ELSE IF type = "fha" /\ fico >= 500 THEN Some("500-579")
    ELSE IF type = "conventional" THEN NULL
    ELSE Some("500-579")

\* the table entry getLtvRateAdjustment reads for an LTV
LtvBand(l) ==
    IF l < Tenths(60) THEN "below60"
    ELSE IF l < Tenths(70) THEN "60-70"
    ELSE IF l < Tenths(75) THEN "70-75"
    ELSE IF l < Tenths(80) THEN "75-80"
    ELSE IF l < Tenths(85) THEN "80-85"
    ELSE IF l < Tenths(90) THEN "85-90"
    ELSE IF l < Tenths(95) THEN "90-95"
    ELSE IF l <= Tenths(97) THEN "95-97"
    ELSE "above97"

-----------------------------------------------------------------------------
(* Input domains *)

\* the FICO domain of the financial form
FicoMin == 300
FicoMax == 850

\* every FICO band boundary, the score just below it, and the domain's ends
FicoScores ==
    {FicoMin, 499, 500, 579, 580, 619, 620, 639, 640, 659, 660, 679, 680, 699,
     700, 719, 720, 739, 740, FicoMax}

\* every LTV band boundary and the value just below it, the slider's ends
\* (80..97 conventional, 90..96.5 FHA), and LTVs outside the slider
LtvValues ==
    {500, 599, 600, 699, 700, 749, 750, 755, 799, 800, 849, 850, 899, 900,
     949, 950, 965, 970, 975, 1000}

\* base rates of a quote: absent, negative, zero, below the clamp, market
RateQuotes ==
    [conventional : {NULL, Some(-1000), Some(0), Some(50), Some(6875)},
     fha : {NULL, Some(-500), Some(6500)}]

\* the mitigating-factor tags of the financial form
FactorTags == {"reserves", "residualIncome", "housingHistory", "minimalDebt"}

\* longest factor list drawn
MaxFactors == 3

FactorLists == UNION {[1..n -> FactorTags] : n \in 0..MaxFactors}

\* no function has been called yet
NoOutputs ==
    /\ ficoAdjustment = NULL
    /\ adjustedRate = NULL
    /\ maxDTI = NULL
    /\ maxPurchasePrice = NULL
    /\ monthlyPayment = NULL
    /\ ltvAdjustment = NULL
    /\ mipRates = NULL
    /\ nextFicoBand = NULL
    /\ lowerLtvOption = NULL
    /\ pmiRates = NULL

\* the loan-details form as it is before the step is mounted, and no
\* arguments of direct calls
NoArguments ==
    /\ argLoanAmount = 0
    /\ argInterestRate = 0
    /\ argPropertyTaxAmount = 0
    /\ argInsuranceAmount = 0
    /\ formData = [loanType |-> "conventional", ltv |-> Tenths(80),
                   ongoingMIP |-> NULL]
    /\ ongoingMIP = NULL

\* the context as MortgageProvider creates it, ResultsStep as it is mounted,
\* and no call in progress
DefaultResults ==
    [maxHomePrice |-> NULL, monthlyPayment |-> NULL, maxDTI |-> NULL,
     monthlyMI |-> NULL, scenarios |-> <<>>]

DefaultGoals == [targetFICO |-> NULL, savingRate |-> NULL]

AppIdle ==
    /\ location = [city |-> "", state |-> "", zipCode |-> ""]
    /\ results = DefaultResults
    /\ goals = DefaultGoals
    /\ currentStep = 0
    /\ guardPending = FALSE
    /\ redirections = 0
    /\ validationError = NULL
    /\ isCalculating = TRUE
    /\ formFetched = [interestRates |-> [conventional |-> NULL, fha |-> NULL],
                      propertyTax |-> NULL, propertyInsurance |-> NULL]
    /\ externalFetch = NULL
    /\ request = NULL
    /\ response = NULL
    /\ ratesResult = NULL

-----------------------------------------------------------------------------
(* Calls of the rate adjustment engine *)

CallGetFicoRateAdjustment ==
    /\ ficoAdjustment = NULL
    /\ ficoAdjustment' = Some(getFicoRateAdjustment(ficoScore, loanType))
    /\ UNCHANGED <<app, inputs, lookups, adjustedRate, maxDTI, maxPurchasePrice,
                   monthlyPayment>>

CallCalculateAdjustedRate ==
    /\ adjustedRate = NULL
    /\ adjustedRate' =
           Some(calculateAdjustedRate(interestRates, ficoScore, ltv, loanType))
    /\ UNCHANGED <<app, inputs, lookups, ficoAdjustment, maxDTI,
                   maxPurchasePrice, monthlyPayment>>

\* getFicoRateAdjustment over the whole FICO domain
InitFico ==
    /\ ficoScore \in FicoMin..FicoMax
    /\ loanType \in LoanTypes
    /\ ltv = Tenths(80)
    /\ mitigatingFactors = <<>>
    /\ interestRates = [conventional |-> NULL, fha |-> NULL]
    /\ annualIncome = 0
    /\ monthlyDebts = 0
    /\ propertyTax = NULL
    /\ propertyInsurance = NULL
    /\ pmiRate = 0
    /\ termYears = 30
    /\ NoOutputs
    /\ NoArguments
    /\ AppIdle

NextFico == CallGetFicoRateAdjustment

SpecFico == InitFico /\ [][NextFico]_vars

\* calculateAdjustedRate and the lookup it is built on
InitRate ==
    /\ ficoScore \in FicoScores
    /\ loanType \in LoanTypes
    /\ ltv \in LtvValues
    /\ interestRates \in RateQuotes
    /\ mitigatingFactors = <<>>
    /\ annualIncome = 0
    /\ monthlyDebts = 0
    /\ propertyTax = NULL
    /\ propertyInsurance = NULL
    /\ pmiRate = 0
    /\ termYears = 30
    /\ NoOutputs
    /\ NoArguments
    /\ AppIdle

NextRate == CallGetFicoRateAdjustment \/ CallCalculateAdjustedRate

SpecRate == InitRate /\ [][NextRate]_vars

-----------------------------------------------------------------------------
(* Claims about the rate adjustment engine *)

\* what every rate computed from a present base rate is: a number at or
\* above the clamp
IsComputedRate(x) == x \in Int /\ x >= MIN_ADJUSTED_RATE

\* the underwriting floor of a loan type
FicoFloor(type) == IF type = "conventional" THEN 620 ELSE 500

\* the adjustments the table of a loan type holds for its eligible bands
ValidAdjustments(type) == Range(FICO_RATE_ADJUSTMENTS[type])

\* C3: when the base rate of the requested loan type is null,
\* calculateAdjustedRate surfaces an outcome that no computed rate can be
\* taken for: it does not return a number that is a rate.
C3_NullBaseRateSurfaced ==
    (adjustedRate # NULL /\ interestRates[loanType] = NULL)
        => ~IsComputedRate(adjustedRate[1])

\* C4: for a FICO score below the loan type's floor, getFicoRateAdjustment
\* returns no value that is a valid adjustment of that loan type, and
\* calculateAdjustedRate computes no rate.
C4_IneligibleSignalled ==
    /\ (ficoAdjustment # NULL /\ ficoScore < FicoFloor(loanType))
           => ficoAdjustment[1] \notin ValidAdjustments(loanType)
    /\ (adjustedRate # NULL /\ ficoScore < FicoFloor(loanType))
           => ~IsComputedRate(adjustedRate[1])

\* C5: with a present base rate, calculateAdjustedRate returns
\* base + FICO adjustment + LTV adjustment, raised to 0.1 when the sum is
\* below it; the result is never below 0.1 and never <= 0.
C5_AdjustedRateClamped ==
    (adjustedRate # NULL /\ interestRates[loanType] # NULL)
        => LET sum == interestRates[loanType][1]
                      + getFicoRateAdjustment(ficoScore, loanType)
                      + getLtvRateAdjustment(ltv)
           IN  /\ adjustedRate[1] = (IF sum < 100 THEN 100 ELSE sum)
               /\ adjustedRate[1] >= 100
               /\ adjustedRate[1] > 0

\* C5 witness: a negative base rate whose sum the clamp raised to 0.1
C5_Witness ==
    /\ interestRates[loanType] = Some(-1000)
    /\ ficoScore = 740
    /\ adjustedRate = Some(100)

\* C10: over FICO 300..850 and both loan types getFicoRateAdjustment returns
\* a non-negative, bounded delta, and the delta of the next higher score is
\* never larger.
C10_FicoAdjustmentMonotone ==
    ficoAdjustment # NULL
        => /\ ficoAdjustment[1] >= 0
           /\ ficoAdjustment[1] <= CONVENTIONAL_BELOW_620
           /\ ficoScore < FicoMax
                  => getFicoRateAdjustment(ficoScore + 1, loanType)
                         <= ficoAdjustment[1]

\* C10 witness: the last score of a band, whose successor has a strictly
\* smaller delta
C10_Witness ==
    /\ loanType = "fha"
    /\ ficoScore = 579
    /\ ficoAdjustment = Some(750)
    /\ getFicoRateAdjustment(580, "fha") = 500

-----------------------------------------------------------------------------
(* Calls of the DTI policy engine *)

CallCalculateMaxDTI ==
    /\ maxDTI = NULL
    /\ maxDTI' =
           Some(calculateMaxDTI(ficoScore, ltv, loanType, mitigatingFactors))
    /\ UNCHANGED <<app, inputs, lookups, ficoAdjustment, adjustedRate,
                   maxPurchasePrice, monthlyPayment>>

\* calculateMaxDTI is exported and takes any string[]: the lists drawn hold
\* the form's tags in every order, repeated tags included
InitDTI ==
    /\ ficoScore \in FicoScores
    /\ loanType \in LoanTypes
    /\ ltv \in {Tenths(70), Tenths(75), 755, Tenths(80), 965}
    /\ mitigatingFactors \in FactorLists
    /\ interestRates = [conventional |-> NULL, fha |-> NULL]
    /\ annualIncome = 0
    /\ monthlyDebts = 0
    /\ propertyTax = NULL
    /\ propertyInsurance = NULL
    /\ pmiRate = 0
    /\ termYears = 30
    /\ NoOutputs
    /\ NoArguments
    /\ AppIdle

NextDTI == CallCalculateMaxDTI

SpecDTI == InitDTI /\ [][NextDTI]_vars

-----------------------------------------------------------------------------
(* Claims about the DTI policy engine *)

\* C6: calculateMaxDTI returns at least 36 for a conventional loan and at
\* least 43 for an FHA loan, whatever the FICO score, LTV and factor list.
C6_MaxDtiFloor ==
    maxDTI # NULL
        => /\ loanType = "conventional" => maxDTI[1] >= 36
           /\ loanType = "fha" => maxDTI[1] >= 43

\* C6 witness: an FHA call that no override raised, returning the floor
C6_Witness ==
    /\ loanType = "fha"
    /\ ficoScore = 679
    /\ mitigatingFactors = <<"housingHistory">>
    /\ maxDTI = Some(43)

\* C7: with FICO, LTV and loan type fixed, the limit returned for the factor
\* list with one more factor added is never below the limit returned.
C7_MaxDtiMonotone ==
    maxDTI # NULL
        => \A f \in FactorTags :
               calculateMaxDTI(ficoScore, ltv, loanType,
                               Append(mitigatingFactors, f)) >= maxDTI[1]

\* C7 witness: an FHA list of two factors, already raised to 50, to which a
\* third factor can be added
C7_Witness ==
    /\ loanType = "fha"
    /\ ficoScore = 620
    /\ mitigatingFactors = <<"housingHistory", "minimalDebt">>
    /\ maxDTI = Some(50)

\* C8: the limit is the largest of the base and the triggered overrides,
\* never their sum.  Conventional: 45 exactly when FICO >= 720 or "reserves"
\* is present or LTV <= 75, else 36.  FHA: 50 exactly when FICO >= 680 or
\* "reserves" is present or two or more mitigating factors are present, else
\* 43.  The factors present are the distinct tags of the list.
C8_MaxDtiIsMaxOfOverrides ==
    maxDTI # NULL
        => LET reserves == "reserves" \in Range(mitigatingFactors)
               twoOrMore == Cardinality(Range(mitigatingFactors)) >= 2
           IN  IF loanType = "conventional"
               THEN maxDTI[1] = (IF ficoScore >= 720 \/ reserves \/ ltv <= 750
                                 THEN 45 ELSE 36)
               ELSE maxDTI[1] = (IF ficoScore >= 680 \/ reserves \/ twoOrMore
                                 THEN 50 ELSE 43)

\* C9: the limit depends only on the set of tags in the factor list: every
\* list with the same tags, in any order and with any tag repeated, gets the
\* limit returned.
C9_MaxDtiDependsOnTagSet ==
    maxDTI # NULL
        => \A g \in FactorLists :
               Range(g) = Range(mitigatingFactors)
                   => calculateMaxDTI(ficoScore, ltv, loanType, g) = maxDTI[1]

-----------------------------------------------------------------------------
(* Calls of the affordability solver, with the arguments ResultsStep builds *)

\* the DTI-derived budget (annualIncome / 12) * (dti / 100) - monthlyDebts,
\* times 1200
Budget1200 == annualIncome * maxDTI[1] - 1200 * monthlyDebts

CallCalculateMaxPurchasePrice ==
    /\ maxPurchasePrice = NULL
    /\ maxPurchasePrice' =
           Some(calculateMaxPurchasePrice(
                    annualIncome, monthlyDebts, maxDTI[1], adjustedRate[1],
                    propertyTax[1], propertyInsurance[1], Tenths(100) - ltv,
                    pmiRate, termYears))
    /\ UNCHANGED <<app, inputs, lookups, ficoAdjustment, adjustedRate, maxDTI,
                   monthlyPayment>>

\* loanAmount = price * (ltv / 100), annual property tax =
\* (propertyTax / 100) * price
CallCalculateMonthlyPayment ==
    /\ maxPurchasePrice # NULL
    /\ maxPurchasePrice[1] > 0
    /\ monthlyPayment = NULL
    /\ LET price == maxPurchasePrice[1]
           loanAmount == price * ltv
           propertyTaxAmount == MulDiv(price, propertyTax[1], 100)
       IN  monthlyPayment' =
               Some(calculateMonthlyPayment(
                        loanAmount, adjustedRate[1], termYears,
                        propertyTaxAmount, propertyInsurance[1] * 1000,
                        pmiRate))
    /\ UNCHANGED <<app, inputs, lookups, ficoAdjustment, adjustedRate, maxDTI,
                   maxPurchasePrice>>

\* the solver's arguments: a DTI limit and an adjusted rate as the engines
\* return them (and the zero rate the solver has a branch for), LTVs of the
\* slider, no down payment and a down payment of 100%
InitSolve ==
    /\ annualIncome \in {12000, 60000, 90000}
    /\ monthlyDebts \in {0, 400}
    /\ maxDTI \in {Some(36), Some(50)}
    /\ adjustedRate \in {Some(0), Some(MIN_ADJUSTED_RATE), Some(6875),
                         Some(8625)}
    /\ propertyTax \in {Some(0), Some(1100)}
    /\ propertyInsurance \in {Some(0), Some(1200)}
    /\ ltv \in {0, Tenths(80), 965, Tenths(100)}
    /\ pmiRate \in {0, 550}
    /\ termYears \in {15, 30}
    /\ loanType = "conventional"
    /\ ficoScore = 680
    /\ mitigatingFactors = <<>>
    /\ interestRates = [conventional |-> NULL, fha |-> NULL]
    /\ ficoAdjustment = NULL
    /\ maxPurchasePrice = NULL
    /\ monthlyPayment = NULL
    /\ ltvAdjustment = NULL
    /\ mipRates = NULL
    /\ nextFicoBand = NULL
    /\ lowerLtvOption = NULL
    /\ pmiRates = NULL
    /\ NoArguments
    /\ AppIdle

NextSolve == CallCalculateMaxPurchasePrice \/ CallCalculateMonthlyPayment

SpecSolve == InitSolve /\ [][NextSolve]_vars

-----------------------------------------------------------------------------
(* Claims about the affordability solver *)

\* C1: round trip.  The payment calculateMonthlyPayment returns for the
\* price calculateMaxPurchasePrice solved (loan = price * LTV / 100, same
\* rate, term, insurance and PMI rate, tax = tax rate * price) is not above
\* the DTI-derived budget by more than the rounding unit, and not below it
\* by more than one rounding unit.
C1_RoundTrip ==
    monthlyPayment # NULL
        => /\ 1200 * monthlyPayment[1] <= Budget1200 + 1200
           /\ 1200 * monthlyPayment[1] >= Budget1200 - 1200

\* C2: calculateMaxPurchasePrice returns no negative and no zero price: a
\* number it returns is a positive price.
C2_PricePositiveOrSignalled ==
    maxPurchasePrice # NULL => maxPurchasePrice[1] > 0

-----------------------------------------------------------------------------
(* Direct calls of the lookups *)

\* how far below zero, and how high, the LTVs handed to a lookup go, in
\* tenths of a percent
LtvBelowZero == 50
LtvHigh == 1500

LtvLow == 0 - LtvBelowZero

\* terms handed to getFhaMipRates: negative, zero, both sides of 15 years
Terms == {-5, 0, 10, 15, 16, 30}

\* loan amounts handed to getFhaMipRates: the placeholder of LoanDetailsStep
\* and a loan amount
Amounts == {1000, 300000}

\* LTVs handed to getFhaMipRates: outside 0..100, both sides of 90
MipLtvs == {LtvLow, 0, 850, 899, 900, 901, 930, 965, 1000, 1001, LtvHigh}

CallGetLtvRateAdjustment ==
    /\ ltvAdjustment = NULL
    /\ ltvAdjustment' = Some(getLtvRateAdjustment(ltv))
    /\ UNCHANGED <<app, inputs, outputs, mipRates, nextFicoBand, lowerLtvOption,
                   pmiRates>>

CallGetFhaMipRates ==
    /\ mipRates = NULL
    /\ mipRates' = Some(getFhaMipRates(argLoanAmount, ltv, termYears))
    /\ UNCHANGED <<app, inputs, outputs, ltvAdjustment, nextFicoBand,
                   lowerLtvOption, pmiRates>>

CallGetNextFicoBand ==
    /\ nextFicoBand = NULL
    /\ nextFicoBand' = Some(getNextFicoBand(ficoScore, loanType))
    /\ UNCHANGED <<app, inputs, outputs, ltvAdjustment, mipRates, lowerLtvOption,
                   pmiRates>>

CallGetLowerLtvOption ==
    /\ lowerLtvOption = NULL
    /\ lowerLtvOption' = Some(getLowerLtvOption(ltv))
    /\ UNCHANGED <<app, inputs, outputs, ltvAdjustment, mipRates, nextFicoBand,
                   pmiRates>>

\* the lookups over the whole FICO domain, over the LTVs LtvLow..LtvHigh, and
\* getFhaMipRates over terms and loan amounts
InitLookup ==
    /\ \/ /\ ficoScore \in FicoMin..FicoMax
          /\ ltv = Tenths(80)
          /\ termYears = 30
          /\ argLoanAmount = 300000
       \/ /\ ficoScore = 680
          /\ ltv \in LtvLow..LtvHigh
          /\ termYears = 30
          /\ argLoanAmount = 300000
       \/ /\ ficoScore = 680
          /\ ltv \in MipLtvs
          /\ termYears \in Terms
          /\ argLoanAmount \in Amounts
    /\ loanType \in LoanTypes
    /\ mitigatingFactors = <<>>
    /\ interestRates = [conventional |-> NULL, fha |-> NULL]
    /\ annualIncome = 0
    /\ monthlyDebts = 0
    /\ propertyTax = NULL
    /\ propertyInsurance = NULL
    /\ pmiRate = 0
    /\ argInterestRate = 0
    /\ argPropertyTaxAmount = 0
    /\ argInsuranceAmount = 0
    /\ formData = [loanType |-> "conventional", ltv |-> Tenths(80),
                   ongoingMIP |-> NULL]
    /\ ongoingMIP = NULL
    /\ NoOutputs
    /\ AppIdle

NextLookup ==
    \/ CallGetFicoRateAdjustment
    \/ CallGetLtvRateAdjustment
    \/ CallGetFhaMipRates
    \/ CallGetNextFicoBand
    \/ CallGetLowerLtvOption

SpecLookup == InitLookup /\ [][NextLookup]_vars

-----------------------------------------------------------------------------
(* Claims about the lookups *)

\* C11: for every LTV from 0 to 150 getLtvRateAdjustment returns the value
\* of the banded table (<60: -0.25; 60-70: -0.125; 70-75: 0; 75-80: 0;
\* 80-85: 0.125; 85-90: 0.25; 90-95: 0.375; 95-97: 0.5; >97: 0.75) whatever
\* the loan type, and the value of the next higher LTV is never smaller.
C11_LtvAdjustmentTable ==
    (ltvAdjustment # NULL /\ ltv >= 0 /\ ltv <= Tenths(150))
        => /\ ltvAdjustment[1] =
                  (IF ltv < 600 THEN -250
                   ELSE IF ltv < 700 THEN -125
                   ELSE IF ltv < 800 THEN 0
                   ELSE IF ltv < 850 THEN 125
                   ELSE IF ltv < 900 THEN 250
                   ELSE IF ltv < 950 THEN 375
                   ELSE IF ltv <= 970 THEN 500
                   ELSE 750)
           /\ ltv < Tenths(150)
                  => getLtvRateAdjustment(ltv + 1) >= ltvAdjustment[1]

\* C11 witness: the lookup called at 97, the upper end of the 95-97 band
C11_Witness ==
    /\ ltv = Tenths(97)
    /\ loanType = "fha"
    /\ ltvAdjustment = Some(500)

\* the half-open interval [lower, upper) each FICO band name stands for; the
\* top band is open-ended
FicoBandInterval ==
    ("740+" :> <<740, FicoMax + 1>> @@ "720-739" :> <<720, 740>> @@
     "700-719" :> <<700, 720>> @@ "680-699" :> <<680, 700>> @@
     "660-679" :> <<660, 680>> @@ "640-659" :> <<640, 660>> @@
     "620-639" :> <<620, 640>> @@ "580-619" :> <<580, 620>> @@
     "500-579" :> <<500, 580>>)

\* the half-open interval [lower, upper) each LTV band stands for when every
\* band starts at its lower boundary; the top band is open-ended
LtvBandInterval ==
    ("below60" :> <<0, 600>> @@ "60-70" :> <<600, 700>> @@
     "70-75" :> <<700, 750>> @@ "75-80" :> <<750, 800>> @@
     "80-85" :> <<800, 850>> @@ "85-90" :> <<850, 900>> @@
     "90-95" :> <<900, 950>> @@ "95-97" :> <<950, 970>> @@
     "above97" :> <<970, LtvHigh + 1>>)

InInterval(x, interval) == interval[1] <= x /\ x < interval[2]

\* C12: every FICO score 300..850 and every LTV from 0 upward resolves to
\* exactly one band, the band is a half-open interval that holds the value
\* (a value equal to a boundary is in the band starting there), and the
\* lookup returns that band's table entry.
C12_BandsHalfOpen ==
    /\ ficoAdjustment # NULL
           => LET band == FicoBand(ficoScore, loanType)
                  table == FICO_RATE_ADJUSTMENTS[loanType]
              IN  /\ band # NULL
                  /\ ficoAdjustment[1] = table[band[1]]
                  /\ {k \in DOMAIN table :
                          InInterval(ficoScore, FicoBandInterval[k])}
                         = {band[1]}
    /\ (ltvAdjustment # NULL /\ ltv >= 0)
           => /\ ltvAdjustment[1] = LTV_RATE_ADJUSTMENTS[LtvBand(ltv)]
              /\ {k \in DOMAIN LTV_RATE_ADJUSTMENTS :
                      InInterval(ltv, LtvBandInterval[k])}
                     = {LtvBand(ltv)}

\* C13: getFhaMipRates returns upfront 1.75 for every input, and annual 0.45
\* for term <= 15 and LTV <= 90, 0.70 for term <= 15 and LTV > 90, 0.50 for
\* term > 15 and LTV <= 90, 0.55 for term > 15 and LTV > 90; no other loan
\* amount changes the result.
C13_FhaMipRates ==
    mipRates # NULL
        => /\ mipRates[1].upfrontMipPercent = 1750
           /\ mipRates[1].annualMipPercent =
                  (IF termYears <= 15 /\ ltv <= 900 THEN 450
                   ELSE IF termYears <= 15 /\ ltv > 900 THEN 700
                   ELSE IF termYears > 15 /\ ltv <= 900 THEN 500
                   ELSE 550)
           /\ \A amount \in Amounts :
                  getFhaMipRates(amount, ltv, termYears) = mipRates[1]

\* C13 witness: a 15-year loan above 90% LTV, for which the annual MIP is
\* 0.70
C13_Witness ==
    /\ termYears = 15
    /\ ltv = 930
    /\ argLoanAmount = 300000
    /\ mipRates = Some([upfrontMipPercent |-> 1750, annualMipPercent |-> 700])

\* C17: getNextFicoBand returns the smallest boundary strictly greater than
\* the score, among 620..740 (conventional) or 580..740 (FHA); none when the
\* score is 740 or more, and for FHA none when the score is below 500.
C17_NextFicoBand ==
    nextFicoBand # NULL
        => LET boundaries ==
                   IF loanType = "conventional"
                   THEN {620, 640, 660, 680, 700, 720, 740}
                   ELSE {580, 620, 640, 660, 680, 700, 720, 740}
               greater == {b \in boundaries : b > ficoScore}
           IN  IF ficoScore >= 740 \/ (loanType = "fha" /\ ficoScore < 500)
               THEN nextFicoBand[1] = NULL
               ELSE /\ nextFicoBand[1] # NULL
                    /\ nextFicoBand[1][1] \in greater
                    /\ \A b \in greater : nextFicoBand[1][1] <= b

\* C17 witness: a score inside the 720-739 band, whose next boundary is the
\* last one
C17_Witness ==
    /\ ficoScore = 725
    /\ nextFicoBand = Some(Some(740))

\* C18: getLowerLtvOption returns the largest boundary among 97, 95, 90, 85,
\* 80, 75, 70, 60 strictly less than the LTV, and none when the LTV is 60 or
\* less.
C18_LowerLtvOption ==
    lowerLtvOption # NULL
        => LET boundaries == {970, 950, 900, 850, 800, 750, 700, 600}
               smaller == {b \in boundaries : b < ltv}
           IN  IF ltv <= 600
               THEN lowerLtvOption[1] = NULL
               ELSE /\ lowerLtvOption[1] # NULL
                    /\ lowerLtvOption[1][1] \in smaller
                    /\ \A b \in smaller : lowerLtvOption[1][1] >= b

\* C18 witness: an LTV equal to a boundary, for which the boundary below it
\* is returned
C18_Witness ==
    /\ ltv = 900
    /\ lowerLtvOption = Some(Some(850))

\* C19: a value getNextFicoBand or getLowerLtvOption returns lies in another
\* band than the current value, and its rate adjustment is not greater than
\* the current one.
C19_MoreFavorableBand ==
    /\ (nextFicoBand # NULL /\ nextFicoBand[1] # NULL)
           => LET next == nextFicoBand[1][1]
              IN  /\ FicoBand(next, loanType) # FicoBand(ficoScore, loanType)
                  /\ getFicoRateAdjustment(next, loanType)
                         <= getFicoRateAdjustment(ficoScore, loanType)
    /\ (lowerLtvOption # NULL /\ lowerLtvOption[1] # NULL)
           => LET lower == lowerLtvOption[1][1]
              IN  /\ LtvBand(lower) # LtvBand(ltv)
                  /\ getLtvRateAdjustment(lower) <= getLtvRateAdjustment(ltv)

\* C20: for an LTV below 0 or above 100, or a term of 0 or less, the lookup
\* that takes it returns an out-of-domain outcome: not the value of a band
\* (a table entry), not a band boundary and not "already at the lowest
\* band".
C20_OutOfDomainRejected ==
    /\ (ltv < 0 \/ ltv > Tenths(100))
           => /\ ltvAdjustment # NULL
                     => ltvAdjustment[1] \notin Range(LTV_RATE_ADJUSTMENTS)
              /\ lowerLtvOption # NULL
                     => /\ lowerLtvOption[1] # NULL
                        /\ lowerLtvOption[1] # Some(Tenths(97))
              /\ mipRates # NULL
                     => mipRates[1].annualMipPercent
                            \notin {FHA_ANNUAL_MIP[k] :
                                        k \in DOMAIN FHA_ANNUAL_MIP}
    /\ (termYears <= 0 /\ mipRates # NULL)
           => mipRates[1].annualMipPercent
                  \notin {FHA_ANNUAL_MIP[k] : k \in DOMAIN FHA_ANNUAL_MIP}

-----------------------------------------------------------------------------
(* Direct calls of calculateMonthlyPayment *)

CallCalculateMonthlyPaymentWithArguments ==
    /\ monthlyPayment = NULL
    /\ monthlyPayment' =
           Some(calculateMonthlyPayment(
                    argLoanAmount * 1000, argInterestRate, termYears,
                    argPropertyTaxAmount * 1000, argInsuranceAmount * 1000,
                    pmiRate))
    /\ UNCHANGED <<app, inputs, lookups, ficoAdjustment, adjustedRate, maxDTI,
                   maxPurchasePrice>>

\* loan amounts, rates (zero, the clamp, market rates), terms, annual taxes,
\* annual premiums and insurance rates in whole dollars and whole payments
InitPayment ==
    /\ argLoanAmount \in {180, 100000, 200000, 243790, 300000}
    /\ argInterestRate \in {0, MIN_ADJUSTED_RATE, 3000, 6000, 6875, 8625}
    /\ termYears \in {10, 15, 30}
    /\ argPropertyTaxAmount \in {0, 2400, 3301}
    /\ argInsuranceAmount \in {0, 1200}
    /\ pmiRate \in {0, 300, 550, 1100}
    /\ loanType = "conventional"
    /\ ltv = Tenths(80)
    /\ ficoScore = 680
    /\ mitigatingFactors = <<>>
    /\ interestRates = [conventional |-> NULL, fha |-> NULL]
    /\ annualIncome = 0
    /\ monthlyDebts = 0
    /\ propertyTax = NULL
    /\ propertyInsurance = NULL
    /\ formData = [loanType |-> "conventional", ltv |-> Tenths(80),
                   ongoingMIP |-> NULL]
    /\ ongoingMIP = NULL
    /\ NoOutputs
    /\ AppIdle

NextPayment == CallCalculateMonthlyPaymentWithArguments

SpecPayment == InitPayment /\ [][NextPayment]_vars

-----------------------------------------------------------------------------
(* Claims about calculateMonthlyPayment *)

\* round(loanAmount / (term * 12) + tax / 12 + insurance / 12
\*       + (pmi / 100) * loanAmount / 12), exactly: the whole parts of the
\* four quotients plus their remainders over the common denominator
\* 1200000 * term, rounded half up
StraightLinePayment(amount, term, tax, insurance, pmi) ==
    LET whole == amount \div (12 * term) + tax \div 12 + insurance \div 12
                 + (pmi * amount) \div 1200000
        den == 1200000 * term
        num == (amount % (12 * term)) * 100000
               + (tax % 12) * 100000 * term
               + (insurance % 12) * 100000 * term
               + ((pmi * amount) % 1200000) * term
    IN  whole + (2 * num + den) \div (2 * den)

\* C15: at an annual rate of exactly zero calculateMonthlyPayment returns
\* round(loanAmount / (termYears * 12) + annual tax / 12 + annual insurance
\* / 12 + (pmi / 100) * loanAmount / 12); the call with (100000, 0, 30, 0,
\* 0, 0) returns 278.
C15_ZeroRatePayment ==
    (monthlyPayment # NULL /\ argInterestRate = 0 /\ argLoanAmount > 0)
        => /\ monthlyPayment[1] =
                  StraightLinePayment(argLoanAmount, termYears,
                                      argPropertyTaxAmount,
                                      argInsuranceAmount, pmiRate)
           /\ (/\ argLoanAmount = 100000 /\ termYears = 30
               /\ argPropertyTaxAmount = 0 /\ argInsuranceAmount = 0
               /\ pmiRate = 0)
                  => monthlyPayment[1] = 278

\* C15 witness: the zero-rate call of the example
C15_Witness ==
    /\ argLoanAmount = 100000
    /\ argInterestRate = 0
    /\ termYears = 30
    /\ argPropertyTaxAmount = 0
    /\ argInsuranceAmount = 0
    /\ pmiRate = 0
    /\ monthlyPayment = Some(278)

\* seven decimals: (1 + r)^n stays below 2^31 for every rate and term drawn
Scale7 == 10^7

RECURSIVE PowScale7(_, _)
PowScale7(x, n) ==
    IF n = 0 THEN Scale7
    ELSE LET half == PowScale7(x, n \div 2)
             square == MulDiv(half, half, Scale7)
         IN  IF n % 2 = 0 THEN square ELSE MulDiv(square, x, Scale7)

\* P * r * (1 + r)^n / ((1 + r)^n - 1) with r = rate / 100 / 12 and
\* n = term * 12, in thousandths of a dollar
StandardAnnuity(amount, rate, term) ==
    LET r == MulDiv(rate, 25, 3)
        growth == PowScale7(Scale7 + r, term * 12)
    IN  MulDiv(MulDiv(amount * 1000, r, Scale7), growth, growth - Scale7)

\* C16: at a non-zero annual rate calculateMonthlyPayment returns the
\* standard annuity payment P * r * (1 + r)^n / ((1 + r)^n - 1) plus the
\* monthly tax, insurance and PMI, rounded to a whole dollar (the two
\* evaluations of the formula agree to within one dollar); the call with
\* (200000, 6, 30, 0, 0, 0) returns 1199.
C16_AnnuityPayment ==
    (monthlyPayment # NULL /\ argInterestRate # 0)
        => LET total == StandardAnnuity(argLoanAmount, argInterestRate,
                                        termYears)
                        + (argPropertyTaxAmount * 1000) \div 12
                        + (argInsuranceAmount * 1000) \div 12
                        + MulDiv(argLoanAmount, pmiRate, 1200)
               expected == Round(total, 1000)
           IN  /\ monthlyPayment[1] >= expected - 1
               /\ monthlyPayment[1] <= expected + 1
               /\ (/\ argLoanAmount = 200000 /\ argInterestRate = 6000
                   /\ termYears = 30 /\ argPropertyTaxAmount = 0
                   /\ argInsuranceAmount = 0 /\ pmiRate = 0)
                      => monthlyPayment[1] = 1199

\* C16 witness: the 30-year amortization of the example
C16_Witness ==
    /\ argLoanAmount = 200000
    /\ argInterestRate = 6000
    /\ termYears = 30
    /\ argPropertyTaxAmount = 0
    /\ argInsuranceAmount = 0
    /\ pmiRate = 0
    /\ monthlyPayment = Some(1199)

-----------------------------------------------------------------------------
(* Mortgage insurance in the pipeline: the loan-details form that stores    *)
(* the FHA premium and the rates calculateResults determines                *)

\* the default of getFhaMipRates' parameter termYears
DEFAULT_TERM_YEARS == 30

\* the placeholder loan amount LoanDetailsStep hands to getFhaMipRates
PLACEHOLDER_LOAN_AMOUNT == 1000

\* a value JavaScript takes for true in a condition: not null, not 0
Truthy(x) == x # NULL /\ x[1] # 0

\* the effect on [formData.loanType, formData.ltv]: an FHA form gets the
\* annual MIP of its LTV, a conventional form gets null
MipEffect(form) ==
    IF form.loanType = "fha"
    THEN [form EXCEPT !.ongoingMIP =
              Some(getFhaMipRates(PLACEHOLDER_LOAN_AMOUNT, form.ltv,
                                  DEFAULT_TERM_YEARS).annualMipPercent)]
    ELSE [form EXCEPT !.ongoingMIP = NULL]

\* the positions of the LTV slider: 80..97 (conventional) or 90..96.5 (FHA)
\* in steps of 0.5
SliderValues(type) ==
    LET min == IF type = "conventional" THEN Tenths(80) ELSE Tenths(90)
        max == IF type = "conventional" THEN Tenths(97) ELSE 965
    IN  {v \in min..max : v % 5 = 0}

\* the stored premium ignored: every loan priced by the LTV estimate
primaryPmiRate_IgnoresMip(type, l, mip) ==
    IF l > Tenths(80)
    THEN (IF l > Tenths(95) THEN 1100
          ELSE IF l > Tenths(90) THEN 800
          ELSE IF l > Tenths(85) THEN 500 ELSE 300)
    ELSE 0

\* pmiRate of the primary calculation
primaryPmiRate(type, l, mip) ==
    IF type = "fha" /\ Truthy(mip) THEN mip[1]
    ELSE IF l > Tenths(80)
    THEN (IF l > Tenths(95) THEN 1100
          ELSE IF l > Tenths(90) THEN 800
          ELSE IF l > Tenths(85) THEN 500 ELSE 300)
    ELSE 0

\* altPmiRate of the scenario with the other loan type
altPmiRate(alternativeLoanType, l, amount) ==
    IF alternativeLoanType = "fha"
    THEN getFhaMipRates(amount, l, DEFAULT_TERM_YEARS).annualMipPercent
    ELSE IF l > Tenths(80)
    THEN (IF l > Tenths(95) THEN 1100
          ELSE IF l > Tenths(90) THEN 800
          ELSE IF l > Tenths(85) THEN 500 ELSE 300)
    ELSE 0

\* lowerLtvPmiRate of the scenario with the lower LTV
lowerLtvPmiRate(type, lowerLtv, amount) ==
    IF type = "fha"
    THEN getFhaMipRates(amount, lowerLtv, DEFAULT_TERM_YEARS).annualMipPercent
    ELSE IF lowerLtv > Tenths(80)
    THEN (IF lowerLtv > Tenths(95) THEN 1100
          ELSE IF lowerLtv > Tenths(90) THEN 800
          ELSE IF lowerLtv > Tenths(85) THEN 500 ELSE 300)
    ELSE 0

\* LoanDetailsStep is mounted: formData is read from userData, then the
\* effect runs; ResultsStep is not shown
MountLoanDetailsStep ==
    /\ formData' = MipEffect([loanType |-> loanType, ltv |-> ltv,
                              ongoingMIP |-> ongoingMIP])
    /\ pmiRates' = NULL
    /\ UNCHANGED <<app, loanType, ltv, ongoingMIP, ficoScore, mitigatingFactors,
                   interestRates, annualIncome, monthlyDebts, propertyTax,
                   propertyInsurance, pmiRate, termYears, argLoanAmount,
                   argInterestRate, argPropertyTaxAmount, argInsuranceAmount,
                   outputs, ltvAdjustment, mipRates, nextFicoBand,
                   lowerLtvOption>>

\* the loan type radio group changes formData.loanType, then the effect runs
SelectLoanType ==
    /\ \E value \in LoanTypes :
           formData' = MipEffect([formData EXCEPT !.loanType = value])
    /\ UNCHANGED <<app, loanType, ltv, ongoingMIP, ficoScore, mitigatingFactors,
                   interestRates, annualIncome, monthlyDebts, propertyTax,
                   propertyInsurance, pmiRate, termYears, argLoanAmount,
                   argInterestRate, argPropertyTaxAmount, argInsuranceAmount,
                   outputs, lookups>>

\* the slider changes formData.ltv, then the effect runs
MoveLtvSlider ==
    /\ \E value \in SliderValues(formData.loanType) :
           formData' = MipEffect([formData EXCEPT !.ltv = value])
    /\ UNCHANGED <<app, loanType, ltv, ongoingMIP, ficoScore, mitigatingFactors,
                   interestRates, annualIncome, monthlyDebts, propertyTax,
                   propertyInsurance, pmiRate, termYears, argLoanAmount,
                   argInterestRate, argPropertyTaxAmount, argInsuranceAmount,
                   outputs, lookups>>

\* handleSubmit: updateLoanDetails(dataToSave) and the move to ResultsStep,
\* which is mounted anew
HandleSubmitLoanDetails ==
    /\ loanType' = formData.loanType
    /\ ltv' = formData.ltv
    /\ ongoingMIP' = formData.ongoingMIP
    /\ pmiRates' = NULL
    /\ UNCHANGED <<app, formData, ficoScore, mitigatingFactors, interestRates,
                   annualIncome, monthlyDebts, propertyTax, propertyInsurance,
                   pmiRate, termYears, argLoanAmount, argInterestRate,
                   argPropertyTaxAmount, argInsuranceAmount, outputs,
                   ltvAdjustment, mipRates, nextFicoBand, lowerLtvOption>>

\* the three insurance rates calculateResults determines: for the primary
\* calculation, for the other loan type, and for the lower LTV when
\* getLowerLtvOption returns one
DeterminePmiRates ==
    /\ pmiRates = NULL
    /\ LET alternativeLoanType ==
               IF loanType = "conventional" THEN "fha" ELSE "conventional"
           lowerLtv == getLowerLtvOption(ltv)
       IN  pmiRates' =
               Some([pmiRate |-> primaryPmiRate(loanType, ltv, ongoingMIP),
                     altPmiRate |->
                         altPmiRate(alternativeLoanType, ltv, argLoanAmount),
                     lowerLtvPmiRate |->
                         IF Truthy(lowerLtv)
                         THEN Some(lowerLtvPmiRate(loanType, lowerLtv[1],
                                                   argLoanAmount))
                         ELSE NULL])
    /\ UNCHANGED <<app, inputs, outputs, ltvAdjustment, mipRates, nextFicoBand,
                   lowerLtvOption>>

\* the context's default loan details and the form not yet mounted
InitPmi ==
    /\ loanType = "conventional"
    /\ ltv = Tenths(80)
    /\ ongoingMIP = NULL
    /\ formData = [loanType |-> "conventional", ltv |-> Tenths(80),
                   ongoingMIP |-> NULL]
    /\ argLoanAmount = 300000
    /\ ficoScore = 680
    /\ mitigatingFactors = <<>>
    /\ interestRates = [conventional |-> NULL, fha |-> NULL]
    /\ annualIncome = 0
    /\ monthlyDebts = 0
    /\ propertyTax = NULL
    /\ propertyInsurance = NULL
    /\ pmiRate = 0
    /\ termYears = 30
    /\ argInterestRate = 0
    /\ argPropertyTaxAmount = 0
    /\ argInsuranceAmount = 0
    /\ NoOutputs
    /\ AppIdle

NextPmi ==
    \/ MountLoanDetailsStep
    \/ SelectLoanType
    \/ MoveLtvSlider
    \/ HandleSubmitLoanDetails
    \/ DeterminePmiRates

SpecPmi == InitPmi /\ [][NextPmi]_vars

\* the conventional PMI rule of the claim
ConventionalPmiRule(l) ==
    IF l <= 800 THEN 0
    ELSE IF l > 950 THEN 1100
    ELSE IF l > 900 THEN 800
    ELSE IF l > 850 THEN 500
    ELSE 300

\* the FHA annual MIP percentage of a 30-year loan
FhaAnnualMipRule(l) == IF l <= 900 THEN 500 ELSE 550

\* C14: the insurance rate the pipeline uses for a conventional loan is 0 at
\* LTV <= 80, else 1.1 above 95, 0.8 above 90, 0.5 above 85 and 0.3 in
\* (80, 85]; for an FHA loan it is always the FHA annual MIP percentage,
\* never the conventional rule.  This holds for the primary calculation, for
\* the other loan type and for the lower LTV.
C14_PmiRule ==
    pmiRates # NULL
        => LET conventional == loanType = "conventional"
               lowerLtv == getLowerLtvOption(ltv)
           IN  /\ pmiRates[1].pmiRate =
                      (IF conventional THEN ConventionalPmiRule(ltv)
                       ELSE FhaAnnualMipRule(ltv))
               /\ pmiRates[1].altPmiRate =
                      (IF conventional THEN FhaAnnualMipRule(ltv)
                       ELSE ConventionalPmiRule(ltv))
               /\ lowerLtv # NULL
                      => pmiRates[1].lowerLtvPmiRate =
                             Some(IF conventional
                                  THEN ConventionalPmiRule(lowerLtv[1])
                                  ELSE FhaAnnualMipRule(lowerLtv[1]))

\* C14 witness: an FHA loan at 96.5% LTV, where the conventional rule would
\* give 1.1 and the annual MIP of 0.55 is used
C14_Witness ==
    /\ loanType = "fha"
    /\ ltv = 965
    /\ pmiRates # NULL
    /\ pmiRates[1].pmiRate = 550
    /\ pmiRates[1].altPmiRate = 1100
    /\ pmiRates[1].lowerLtvPmiRate = Some(550)

-----------------------------------------------------------------------------
(* ResultsStep: validateData and calculateResults *)

\* validateData: the message it sets, or NULL when the data are valid
validateData ==
    IF location.city = "" \/ location.state = "" \/ location.zipCode = ""
    THEN Some("Please complete your location information in Step 1.")
    ELSE IF annualIncome <= 0
    THEN Some("Please enter your annual income in Step 2.")
    ELSE IF \/ ~(Truthy(interestRates.conventional) \/ Truthy(interestRates.fha))
            \/ interestRates[loanType] = NULL
            \/ interestRates[loanType][1] <= 0
    THEN Some("Required loan details (interest rate) are missing. Please complete Step 3.")
    ELSE IF ~Truthy(propertyTax) \/ propertyTax[1] <= 0
    THEN Some("Property tax information is missing. Please complete Step 3.")
    ELSE NULL

\* loanDetails.propertyInsurance || 1200
InsuranceOrDefault ==
    IF Truthy(propertyInsurance) THEN propertyInsurance[1] ELSE 1200

\* principal and interest, property tax and mortgage insurance of
\* calculateMonthlyPayment before rounding, in thousandths of a dollar, for
\* amounts >= 0
MonthlyCosts(loanAmount, interestRate, term, propertyTaxAmount, pmi) ==
    LET monthlyRate == MonthlyRate(interestRate)
        totalPayments == term * 12
        monthlyPrincipalAndInterest ==
            IF monthlyRate = 0 THEN loanAmount \div totalPayments
            ELSE MulDiv(loanAmount,
                        AnnuityFactor(monthlyRate, totalPayments), Nano)
    IN  monthlyPrincipalAndInterest + propertyTaxAmount \div 12
        + MulDiv(loanAmount, pmi, 1200000)

\* calculateMonthlyPayment(price * (l / 100), rate, 30,
\* (propertyTax / 100) * price, propertyInsurance || 1200, pmi).  For a
\* negative price the loan amount and the tax are negative and the insurance
\* is not.
PaymentForPrice(price, rate, l, pmi) ==
    IF price >= 0
    THEN calculateMonthlyPayment(price * l, rate, 30,
                                 MulDiv(price, propertyTax[1], 100),
                                 InsuranceOrDefault * 1000, pmi)
    ELSE Round((InsuranceOrDefault * 1000) \div 12
               - MonthlyCosts((-price) * l, rate, 30,
                              MulDiv(-price, propertyTax[1], 100), pmi),
               1000)

\* calculateMaxPurchasePrice and calculateMonthlyPayment as calculateResults
\* calls them, for the primary calculation and for each scenario
PriceAndPayment(dti, rate, l, pmi) ==
    LET price == calculateMaxPurchasePrice(
                     annualIncome, monthlyDebts, dti, rate, propertyTax[1],
                     InsuranceOrDefault, Tenths(100) - l, pmi,
                     DEFAULT_TERM_YEARS)
    IN  [maxHomePrice |-> price,
         monthlyPayment |-> PaymentForPrice(price, rate, l, pmi)]

\* an entry of the scenarios array
ScenarioOf(type, ficoChange, ltvChange, result) ==
    [loanType |-> type, ficoChange |-> ficoChange, ltvChange |-> ltvChange,
     maxHomePrice |-> result.maxHomePrice,
     monthlyPayment |-> result.monthlyPayment]

\* Scenario 1: the other loan type, with its own DTI limit, rate and
\* insurance rate
AlternativeScenario(alternativeLoanType, primaryLoanAmount) ==
    <<ScenarioOf(
          alternativeLoanType, 0, 0,
          PriceAndPayment(
              calculateMaxDTI(ficoScore, ltv, alternativeLoanType,
                              mitigatingFactors),
              calculateAdjustedRate(interestRates, ficoScore, ltv,
                                    alternativeLoanType),
              ltv,
              altPmiRate(alternativeLoanType, ltv, primaryLoanAmount)))>>

\* Scenario 2: the next FICO band, if any, with the primary maxDTI and
\* pmiRate
HigherFicoScenario(nextFico, primaryDTI, primaryPmi) ==
    IF Truthy(nextFico)
    THEN <<ScenarioOf(
               loanType, nextFico[1] - ficoScore, 0,
               PriceAndPayment(
                   primaryDTI,
                   calculateAdjustedRate(interestRates, nextFico[1], ltv,
                                         loanType),
                   ltv, primaryPmi))>>
    ELSE <<>>

\* Scenario 3: the lower LTV, if any, with its own insurance rate and the
\* primary maxDTI
LowerLtvScenario(lowerLtv, primaryDTI, primaryLoanAmount) ==
    IF Truthy(lowerLtv)
    THEN <<ScenarioOf(
               loanType, 0, lowerLtv[1] - ltv,
               PriceAndPayment(
                   primaryDTI,
                   calculateAdjustedRate(interestRates, ficoScore,
                                         lowerLtv[1], loanType),
                   lowerLtv[1],
                   lowerLtvPmiRate(loanType, lowerLtv[1],
                                   primaryLoanAmount)))>>
    ELSE <<>>

\* the scenarios array calculateResults builds
Scenarios(primaryDTI, primaryPmi, primaryLoanAmount) ==
    AlternativeScenario(
        IF loanType = "conventional" THEN "fha" ELSE "conventional",
        primaryLoanAmount)
    \o HigherFicoScenario(getNextFicoBand(ficoScore, loanType), primaryDTI,
                          primaryPmi)
    \o LowerLtvScenario(getLowerLtvOption(ltv), primaryDTI,
                        primaryLoanAmount)

\* what calculateResults leaves when it returns before updateResults
Rejected(message) ==
    [results |-> results, validationError |-> Some(message),
     isCalculating |-> FALSE, stored |-> FALSE]

\* what calculateResults leaves after updateResults
Stored(dti, pmi, primary) ==
    [results |->
         [maxHomePrice |-> Some(primary.maxHomePrice),
          monthlyPayment |-> Some(primary.monthlyPayment),
          maxDTI |-> Some(dti),
          monthlyMI |->
              IF pmi > 0
              THEN Some(IF primary.maxHomePrice >= 0
                        THEN MulDiv(primary.maxHomePrice * ltv, pmi, 1200000)
                        ELSE -MulDiv((-primary.maxHomePrice) * ltv, pmi,
                                     1200000))
              ELSE NULL,
          scenarios |-> Scenarios(dti, pmi, primary.maxHomePrice * ltv)],
     validationError |-> NULL,
     isCalculating |-> FALSE, stored |-> TRUE]

\* the checks of calculateResults without the check of the price
CheckAndStore_NoPriceCheck(invalid, dti, pmi, primary) ==
    IF invalid # NULL THEN Rejected(invalid[1])
    ELSE Stored(dti, pmi, primary)

\* the checks of calculateResults: validateData, the primary price, the
\* primary payment
CheckAndStore(invalid, dti, pmi, primary) ==
    IF invalid # NULL THEN Rejected(invalid[1])
    ELSE IF primary.maxHomePrice <= 0
    THEN Rejected("Could not calculate a valid maximum home price with the provided inputs. Please review your financial details.")
    ELSE IF primary.monthlyPayment <= 0
    THEN Rejected("Could not calculate a valid monthly payment with the provided inputs. Please review your financial details.")
    ELSE Stored(dti, pmi, primary)

\* the primary calculation
PrimaryCalculation(dti, rate, pmi) == PriceAndPayment(dti, rate, ltv, pmi)

\* calculateResults without the check of the primary price
calculateResults_NoPriceCheck ==
    CheckAndStore_NoPriceCheck(
        validateData,
        calculateMaxDTI(ficoScore, ltv, loanType, mitigatingFactors),
        primaryPmiRate(loanType, ltv, ongoingMIP),
        PrimaryCalculation(
            calculateMaxDTI(ficoScore, ltv, loanType, mitigatingFactors),
            calculateAdjustedRate(interestRates, ficoScore, ltv, loanType),
            primaryPmiRate(loanType, ltv, ongoingMIP)))

\* calculateResults: what it leaves in userData.results, validationError and
\* isCalculating, and whether it called updateResults.  The function awaits
\* nothing, so it runs in one step.
calculateResults ==
    CheckAndStore(
        validateData,
        calculateMaxDTI(ficoScore, ltv, loanType, mitigatingFactors),
        primaryPmiRate(loanType, ltv, ongoingMIP),
        PrimaryCalculation(
            calculateMaxDTI(ficoScore, ltv, loanType, mitigatingFactors),
            calculateAdjustedRate(interestRates, ficoScore, ltv, loanType),
            primaryPmiRate(loanType, ltv, ongoingMIP)))

-----------------------------------------------------------------------------
(* MortgageCalculator: the step validation effect *)

\* the effect without the check of the interest rates
stepGuard_NoRateCheck(step, loc, income, rates, tax) ==
    IF step = 1 /\ (loc.city = "" \/ loc.state = "") THEN 0
    ELSE IF step = 2 /\ income = 0 THEN 1
    ELSE IF step = 3 /\ ~Truthy(tax) THEN 2
    ELSE step

\* the step the effect sets for a step and the data in userData (the step
\* itself where it calls nothing).  userData.loanDetails.interestRates is
\* always an object.
stepGuard(step, loc, income, rates, tax) ==
    IF step = 1 /\ (loc.city = "" \/ loc.state = "") THEN 0
    ELSE IF step = 2 /\ income = 0 THEN 1
    ELSE IF step = 3 /\ (\/ ~(Truthy(rates.conventional) \/ Truthy(rates.fha))
                         \/ ~Truthy(tax))
    THEN 2
    ELSE step

\* the effect runs after a render in which currentStep or userData changed,
\* and after the effects of the step component mounted in that render.  A
\* redirection unmounts the step component.
StepValidationEffect ==
    /\ guardPending
    /\ ~(currentStep = 3 /\ isCalculating)
    /\ LET target == stepGuard(currentStep, location, annualIncome,
                               interestRates, propertyTax)
       IN  /\ currentStep' = target
           /\ guardPending' = (target # currentStep)
           /\ redirections' = IF target # currentStep THEN redirections + 1
                              ELSE redirections
           /\ externalFetch' = IF target # currentStep THEN NULL
                               ELSE externalFetch
    /\ UNCHANGED <<inputs, outputs, lookups, location, results, goals,
                   validationError, isCalculating, formFetched, request,
                   response, ratesResult>>

\* what the earlier steps can have left in userData when ResultsStep is
\* mounted: handleSubmit of LoanDetailsStep stores two rates, a tax rate and
\* an insurance amount, and a rate the service delivered can be 0
ResultsData ==
    LET complete ==
            [location |-> [city |-> "Austin", state |-> "TX",
                           zipCode |-> "78701"],
             interestRates |-> [conventional |-> Some(6875),
                                fha |-> Some(6500)],
             propertyTax |-> Some(1100),
             propertyInsurance |-> Some(1200)]
    IN  {complete,
         [complete EXCEPT !.interestRates.conventional = Some(0)],
         [complete EXCEPT !.interestRates.fha = Some(0)],
         [complete EXCEPT !.interestRates =
                              [conventional |-> Some(0), fha |-> Some(0)]]}

ResultsIncomes == {60000, 90000}

ResultsDebts == {400, 1900}

\* ResultsStep is mounted for the first time
InitResults ==
    /\ loanType \in LoanTypes
    /\ ltv \in {Tenths(80), Tenths(85), 965}
    /\ ficoScore \in {600, 660, 700, 740}
    /\ mitigatingFactors \in {<<>>, <<"reserves", "minimalDebt">>}
    /\ annualIncome \in ResultsIncomes
    /\ monthlyDebts \in ResultsDebts
    /\ \E data \in ResultsData :
           /\ location = data.location
           /\ interestRates = data.interestRates
           /\ propertyTax = data.propertyTax
           /\ propertyInsurance = data.propertyInsurance
    /\ formData = MipEffect([loanType |-> loanType, ltv |-> ltv,
                             ongoingMIP |-> NULL])
    /\ ongoingMIP = formData.ongoingMIP
    /\ pmiRate = 0
    /\ termYears = DEFAULT_TERM_YEARS
    /\ argLoanAmount = 0
    /\ argInterestRate = 0
    /\ argPropertyTaxAmount = 0
    /\ argInsuranceAmount = 0
    /\ NoOutputs
    /\ results = DefaultResults
    /\ goals = DefaultGoals
    /\ currentStep = 3
    /\ guardPending = TRUE
    /\ redirections = 0
    /\ validationError = NULL
    /\ isCalculating = TRUE
    /\ formFetched = [interestRates |-> interestRates,
                      propertyTax |-> propertyTax,
                      propertyInsurance |-> propertyInsurance]
    /\ externalFetch = NULL
    /\ request = NULL
    /\ response = NULL
    /\ ratesResult = NULL

\* the effect of ResultsStep that runs calculateResults once after the mount
CalculateResults ==
    /\ currentStep = 3
    /\ isCalculating
    /\ \E done \in {calculateResults} :
           /\ results' = done.results
           /\ validationError' = done.validationError
           /\ isCalculating' = done.isCalculating
           /\ guardPending' = (guardPending \/ done.stored)
    /\ UNCHANGED <<inputs, outputs, lookups, location, goals, currentStep,
                   redirections, formFetched, externalFetch, request,
                   response, ratesResult>>

\* the user goes back to the financial step, changes income and debts and
\* comes to ResultsStep again: the component starts with fresh state and
\* userData.results is what the last calculation left
ReturnToResultsStep ==
    /\ currentStep \in {2, 3}
    /\ ~isCalculating
    /\ ~guardPending
    /\ annualIncome' \in ResultsIncomes
    /\ monthlyDebts' \in ResultsDebts
    /\ currentStep' = 3
    /\ guardPending' = TRUE
    /\ redirections' = 0
    /\ isCalculating' = TRUE
    /\ validationError' = NULL
    /\ UNCHANGED <<loanType, ltv, ficoScore, mitigatingFactors, interestRates,
                   propertyTax, propertyInsurance, pmiRate, termYears,
                   argLoanAmount, argInterestRate, argPropertyTaxAmount,
                   argInsuranceAmount, formData, ongoingMIP, outputs, lookups,
                   location, results, goals, formFetched, externalFetch,
                   request, response, ratesResult>>

NextResults ==
    \/ CalculateResults
    \/ StepValidationEffect
    \/ ReturnToResultsStep

SpecResults == InitResults /\ [][NextResults]_vars

-----------------------------------------------------------------------------
(* Claims about ResultsStep *)

\* the last calculateResults run stored the results that are in userData
ResultsStored == ~isCalculating /\ validationError = NULL

\* the dimensions in which a stored scenario differs from the primary inputs
ChangedDimensions(scenario) ==
    {d \in {"loanType", "fico", "ltv"} :
        \/ d = "loanType" /\ scenario.loanType # loanType
        \/ d = "fico" /\ scenario.ficoChange # 0
        \/ d = "ltv" /\ scenario.ltvChange # 0}

\* C21: every stored scenario differs from the primary inputs in exactly one
\* of loan type, FICO score and LTV; a FICO change is an increase and an LTV
\* change is a decrease.
C21_OneDimension ==
    \A i \in DOMAIN results.scenarios :
        LET scenario == results.scenarios[i]
        IN  /\ Cardinality(ChangedDimensions(scenario)) = 1
            /\ scenario.ficoChange >= 0
            /\ scenario.ltvChange <= 0

C21_Witness ==
    /\ ResultsStored
    /\ Len(results.scenarios) = 3
    /\ results.scenarios[1].loanType # loanType
    /\ results.scenarios[2].ficoChange > 0
    /\ results.scenarios[3].ltvChange < 0

\* the primary pipeline of calculateResults run on a loan type, a score and an
\* LTV, with the premium the loan-details form stores for them
FullPipeline(type, fico, l) ==
    LET mip == MipEffect([loanType |-> type, ltv |-> l,
                          ongoingMIP |-> NULL]).ongoingMIP
    IN  PriceAndPayment(
            calculateMaxDTI(fico, l, type, mitigatingFactors),
            calculateAdjustedRate(interestRates, fico, l, type),
            l, primaryPmiRate(type, l, mip))

\* C22: the price and the payment of every scenario are those of the primary
\* pipeline run again with the scenario's loan type, FICO score and LTV; its
\* DTI limit and its insurance rate are those of the substituted input.
C22_ScenarioIsPipelineRerun ==
    ResultsStored =>
        \A i \in DOMAIN results.scenarios :
            LET scenario == results.scenarios[i]
                rerun == FullPipeline(scenario.loanType,
                                      ficoScore + scenario.ficoChange,
                                      ltv + scenario.ltvChange)
            IN  /\ scenario.maxHomePrice = rerun.maxHomePrice
                /\ scenario.monthlyPayment = rerun.monthlyPayment

\* the primary price and payment of the data in userData
PrimaryResult == FullPipeline(loanType, ficoScore, ltv)

\* C25: a run of calculateResults ends with isCalculating false; it stores
\* results exactly when validateData passes and the primary price and payment
\* are above zero, and the stored price and payment are those; on every other
\* path it sets validationError and leaves userData.results as it was.
C25_ResultsOnlyWhenValid ==
    [][isCalculating =>
           /\ ~isCalculating'
           /\ (validationError' = NULL) <=>
                  /\ validateData = NULL
                  /\ PrimaryResult.maxHomePrice > 0
                  /\ PrimaryResult.monthlyPayment > 0
           /\ validationError' = NULL =>
                  /\ results'.maxHomePrice = Some(PrimaryResult.maxHomePrice)
                  /\ results'.monthlyPayment
                         = Some(PrimaryResult.monthlyPayment)
           /\ validationError' # NULL => results' = results]_vars

\* a failed run after a run that stored results
C25_Witness ==
    /\ ~isCalculating
    /\ validationError # NULL
    /\ results # DefaultResults

\* C26: every stored scenario has a price and a payment above zero.
C26_ScenariosPositive ==
    \A i \in DOMAIN results.scenarios :
        /\ results.scenarios[i].maxHomePrice > 0
        /\ results.scenarios[i].monthlyPayment > 0

-----------------------------------------------------------------------------
(* perplexityService: fetchPerplexityData and getInterestRates *)

\* fallbackData.interestRates
FALLBACK_CONVENTIONAL == 7000

FALLBACK_FHA == 6750

fallbackRates ==
    [conventional |-> Some(FALLBACK_CONVENTIONAL), fha |-> Some(FALLBACK_FHA)]

\* the values a key of the parsed JSON object can have, by typeof
Undefined == [type |-> "undefined", value |-> 0]

JsonNull == [type |-> "object", value |-> 0]

JsonString == [type |-> "string", value |-> 0]

JsonNumber(n) == [type |-> "number", value |-> n]

\* message.content of a response.  kind: "empty" is the empty string, "text"
\* is text that is no JSON, "null" and "number" are the JSON literals null
\* and 5, "object" is a JSON object with the two keys as given.  fence:
\* "json" is content wrapped in ```json ... ```, "plain" in ``` ... ```.
Contents ==
    {[kind |-> k, fence |-> "none", conventionalRate |-> Undefined,
      fhaRate |-> Undefined] : k \in {"empty", "text", "null", "number"}}
    \union [kind : {"object"}, fence : {"none", "json", "plain"},
            conventionalRate : {Undefined, JsonNull, JsonString,
                                JsonNumber(0), JsonNumber(7125)},
            fhaRate : {Undefined, JsonString, JsonNumber(0),
                       JsonNumber(6875)}]

\* the body of a response: no JSON, JSON without choices[0].message, or JSON
\* with a message
Bodies ==
    {[kind |-> k, content |-> NULL] : k \in {"malformed", "noChoices"}}
    \union {[kind |-> "message", content |-> Some(c)] : c \in Contents}

Responses == [ok : BOOLEAN, body : Bodies]

\* response.trim().replace(/^```json\s*|\s*```$/g, '') followed by
\* JSON.parse: the parsed value, or NULL where JSON.parse throws.  The
\* closing fence is removed and the opening one only when it is ```json.
ParseCleaned(content) ==
    IF content.kind \in {"empty", "text"} \/ content.fence = "plain"
    THEN NULL
    ELSE Some(content)

\* getInterestRates keeping no rate when one of the two is missing
getInterestRates_AllOrNothing(fetched) ==
    IF fetched = NULL \/ fetched[1].kind = "empty" THEN fallbackRates
    ELSE LET parsed == ParseCleaned(fetched[1])
         IN  IF parsed = NULL \/ parsed[1].kind = "null" THEN fallbackRates
             ELSE LET data == parsed[1]
                      conventionalRate ==
                          IF data.conventionalRate.type = "number"
                          THEN Some(data.conventionalRate.value) ELSE NULL
                      fhaRate ==
                          IF data.fhaRate.type = "number"
                          THEN Some(data.fhaRate.value) ELSE NULL
                  IN  IF conventionalRate = NULL \/ fhaRate = NULL
                      THEN fallbackRates
                      ELSE [conventional |-> conventionalRate,
                            fha |-> fhaRate]

\* getInterestRates after fetchPerplexityData has resolved to fetched (NULL
\* or Some(content)): the pair it returns
getInterestRates(fetched) ==
    IF fetched = NULL \/ fetched[1].kind = "empty" THEN fallbackRates
    ELSE LET parsed == ParseCleaned(fetched[1])
         IN  \* JSON.parse throws, or reading a key of null throws
             IF parsed = NULL \/ parsed[1].kind = "null" THEN fallbackRates
             ELSE LET data == parsed[1]
                      conventionalRate ==
                          IF data.conventionalRate.type = "number"
                          THEN Some(data.conventionalRate.value) ELSE NULL
                      fhaRate ==
                          IF data.fhaRate.type = "number"
                          THEN Some(data.fhaRate.value) ELSE NULL
                  IN  IF conventionalRate = NULL \/ fhaRate = NULL
                      THEN [conventional |->
                                IF conventionalRate # NULL
                                THEN conventionalRate
                                ELSE fallbackRates.conventional,
                            fha |-> IF fhaRate # NULL THEN fhaRate
                                    ELSE fallbackRates.fha]
                      ELSE [conventional |-> conventionalRate,
                            fha |-> fhaRate]

InitFetch ==
    /\ loanType = "conventional"
    /\ ltv = Tenths(80)
    /\ ficoScore = 680
    /\ mitigatingFactors = <<>>
    /\ interestRates = [conventional |-> NULL, fha |-> NULL]
    /\ annualIncome = 0
    /\ monthlyDebts = 0
    /\ propertyTax = NULL
    /\ propertyInsurance = NULL
    /\ pmiRate = 0
    /\ termYears = DEFAULT_TERM_YEARS
    /\ NoArguments
    /\ NoOutputs
    /\ AppIdle

\* getInterestRates is called: fetchPerplexityData arms the abort timer and
\* awaits fetch
CallGetInterestRates ==
    /\ request = NULL
    /\ ratesResult = NULL
    /\ request' = Some([pc |-> "fetch", timer |-> "armed",
                        resolved |-> NULL])
    /\ response' = NULL
    /\ UNCHANGED <<inputs, outputs, lookups, location, results, goals,
                   currentStep, guardPending, redirections, validationError,
                   isCalculating, formFetched, externalFetch, ratesResult>>

\* the status line and headers arrive: fetch resolves, the timer is cleared
\* and the body is awaited (text() of an error status, json() otherwise)
ResponseArrives ==
    /\ request # NULL
    /\ request[1].pc = "fetch"
    /\ \E r \in Responses :
           /\ response' = Some(r)
           /\ request' = Some([request[1] EXCEPT
                                   !.pc = IF r.ok THEN "json" ELSE "text",
                                   !.timer = "cleared"])
    /\ UNCHANGED <<inputs, outputs, lookups, location, results, goals,
                   currentStep, guardPending, redirections, validationError,
                   isCalculating, formFetched, externalFetch, ratesResult>>

\* fetch rejects (network error): the catch block returns null
FetchFails ==
    /\ request # NULL
    /\ request[1].pc = "fetch"
    /\ request' = Some([request[1] EXCEPT !.pc = "returned",
                                          !.resolved = Some(NULL)])
    /\ UNCHANGED <<inputs, outputs, lookups, location, results, goals,
                   currentStep, guardPending, redirections, validationError,
                   isCalculating, formFetched, externalFetch, response, ratesResult>>

\* 20 seconds after the call the timer, unless cleared, aborts the
\* controller; a fetch still pending rejects and the catch block returns null
AbortTimerFires ==
    /\ request # NULL
    /\ request[1].timer = "armed"
    /\ request' =
           Some(IF request[1].pc = "fetch"
                THEN [pc |-> "returned", timer |-> "fired",
                      resolved |-> Some(NULL)]
                ELSE [request[1] EXCEPT !.timer = "fired"])
    /\ UNCHANGED <<inputs, outputs, lookups, location, results, goals,
                   currentStep, guardPending, redirections, validationError,
                   isCalculating, formFetched, externalFetch, response, ratesResult>>

\* the body has arrived: after text() the error is thrown; after json() the
\* format is checked and the content returned
BodyArrives ==
    /\ request # NULL
    /\ request[1].pc \in {"text", "json"}
    /\ request' =
           Some([request[1] EXCEPT
                     !.pc = "returned",
                     !.resolved =
                         IF request[1].pc = "json"
                            /\ response[1].body.kind = "message"
                         THEN Some(response[1].body.content)
                         ELSE Some(NULL)])
    /\ UNCHANGED <<inputs, outputs, lookups, location, results, goals,
                   currentStep, guardPending, redirections, validationError,
                   isCalculating, formFetched, externalFetch, response, ratesResult>>

\* reading the body fails (the connection breaks): the catch block returns
\* null
BodyFails ==
    /\ request # NULL
    /\ request[1].pc \in {"text", "json"}
    /\ request' = Some([request[1] EXCEPT !.pc = "returned",
                                          !.resolved = Some(NULL)])
    /\ UNCHANGED <<inputs, outputs, lookups, location, results, goals,
                   currentStep, guardPending, redirections, validationError,
                   isCalculating, formFetched, externalFetch, response, ratesResult>>

\* getInterestRates continues after the await and returns
GetInterestRatesReturns ==
    /\ request # NULL
    /\ request[1].pc = "returned"
    /\ ratesResult = NULL
    /\ ratesResult' = Some(getInterestRates(request[1].resolved[1]))
    /\ UNCHANGED <<inputs, outputs, lookups, location, results, goals,
                   currentStep, guardPending, redirections, validationError,
                   isCalculating, formFetched, externalFetch, request, response>>

NextFetch ==
    \/ CallGetInterestRates
    \/ ResponseArrives
    \/ FetchFails
    \/ AbortTimerFires
    \/ BodyArrives
    \/ BodyFails
    \/ GetInterestRatesReturns

SpecFetch == InitFetch /\ [][NextFetch]_vars

\* the steps of the program and its timer are taken when they can be; the
\* network owes nothing
SpecFetchFair ==
    /\ SpecFetch
    /\ WF_vars(CallGetInterestRates)
    /\ WF_vars(AbortTimerFires)
    /\ WF_vars(GetInterestRatesReturns)

-----------------------------------------------------------------------------
(* Claims about perplexityService *)

\* the rate getInterestRates is to return for a key: the number parsed from
\* the content, or the fallback
ExpectedRate(key, fallback) ==
    LET fetched == request[1].resolved[1]
        parsedObject == /\ fetched # NULL
                        /\ fetched[1].kind = "object"
                        /\ fetched[1].fence # "plain"
    IN  IF parsedObject /\ fetched[1][key].type = "number"
        THEN Some(fetched[1][key].value)
        ELSE Some(fallback)

\* C23: the pair getInterestRates returns has two numbers: each rate parsed
\* from the response is kept, each other one is the fallback (7.0
\* conventional, 6.75 FHA).
C23_BothRatesPresent ==
    ratesResult # NULL =>
        /\ ratesResult[1].conventional # NULL
        /\ ratesResult[1].fha # NULL
        /\ ratesResult[1].conventional
               = ExpectedRate("conventionalRate", FALLBACK_CONVENTIONAL)
        /\ ratesResult[1].fha = ExpectedRate("fhaRate", FALLBACK_FHA)

\* one rate parsed and kept, the other one replaced
C23_Witness ==
    /\ ratesResult # NULL
    /\ ratesResult[1] = [conventional |-> Some(7125),
                         fha |-> Some(FALLBACK_FHA)]
    /\ request[1].resolved[1][1].fhaRate = JsonString

\* C24: every call of fetchPerplexityData resolves at last, to the content
\* or to null.
C24_EventuallyResolves ==
    (request # NULL) ~> (request # NULL /\ request[1].resolved # NULL)

-----------------------------------------------------------------------------
(* The wizard: the context, the step components and their handlers *)

\* userData of the context
UserData ==
    [location |-> location,
     financials |-> [annualIncome |-> annualIncome,
                     monthlyDebts |-> monthlyDebts,
                     ficoScore |-> ficoScore,
                     mitigatingFactors |-> mitigatingFactors],
     loanDetails |-> [loanType |-> loanType, ltv |-> ltv,
                      interestRates |-> interestRates,
                      propertyTax |-> propertyTax,
                      propertyInsurance |-> propertyInsurance,
                      ongoingMIP |-> ongoingMIP],
     results |-> results,
     goals |-> goals]

defaultUserData ==
    [location |-> [city |-> "", state |-> "", zipCode |-> ""],
     financials |-> [annualIncome |-> 0, monthlyDebts |-> 0,
                     ficoScore |-> 680, mitigatingFactors |-> <<>>],
     loanDetails |-> [loanType |-> "conventional", ltv |-> Tenths(80),
                      interestRates |-> [conventional |-> NULL,
                                         fha |-> NULL],
                      propertyTax |-> NULL, propertyInsurance |-> NULL,
                      ongoingMIP |-> NULL],
     results |-> DefaultResults,
     goals |-> DefaultGoals]

\* the render after setUserData: userData is u
SetUserData(u) ==
    /\ location' = u.location
    /\ annualIncome' = u.financials.annualIncome
    /\ monthlyDebts' = u.financials.monthlyDebts
    /\ ficoScore' = u.financials.ficoScore
    /\ mitigatingFactors' = u.financials.mitigatingFactors
    /\ loanType' = u.loanDetails.loanType
    /\ ltv' = u.loanDetails.ltv
    /\ interestRates' = u.loanDetails.interestRates
    /\ propertyTax' = u.loanDetails.propertyTax
    /\ propertyInsurance' = u.loanDetails.propertyInsurance
    /\ ongoingMIP' = u.loanDetails.ongoingMIP
    /\ results' = u.results
    /\ goals' = u.goals

userDataVars ==
    <<location, annualIncome, monthlyDebts, ficoScore, mitigatingFactors,
      loanType, ltv, interestRates, propertyTax, propertyInsurance,
      ongoingMIP, results, goals>>

\* what no handler of the wizard touches: arguments and results of direct
\* calls and the service call
aside ==
    <<pmiRate, termYears, argLoanAmount, argInterestRate,
      argPropertyTaxAmount, argInsuranceAmount, outputs, lookups, request,
      response, ratesResult>>

\* the queued state updates of one handler
UpdateGoals(g) == [hook |-> "userData", kind |-> "updateGoals", value |-> g]

ReplaceUserData(u) ==
    [hook |-> "userData", kind |-> "setUserData", value |-> u]

SetStep(n) == [hook |-> "currentStep", kind |-> "setCurrentStep", value |-> n]

\* one queued update applied to [userData, currentStep]
ApplyUpdate(update, state) ==
    IF update.kind = "updateGoals"
    THEN [state EXCEPT !.userData.goals =
              [k \in DOMAIN @ |-> IF k \in DOMAIN update.value
                                  THEN update.value[k] ELSE @[k]]]
    ELSE IF update.kind = "setUserData"
    THEN [state EXCEPT !.userData = update.value]
    ELSE [state EXCEPT !.currentStep = update.value]

\* the queue applied from its last update to its first
RECURSIVE ApplyUpdates_LastFirst(_, _)
ApplyUpdates_LastFirst(updates, state) ==
    IF Len(updates) = 0 THEN state
    ELSE ApplyUpdates_LastFirst(
             SubSeq(updates, 1, Len(updates) - 1),
             ApplyUpdate(updates[Len(updates)], state))

\* the queue applied in the order of the calls
RECURSIVE ApplyUpdates(_, _)
ApplyUpdates(updates, state) ==
    IF Len(updates) = 0 THEN state
    ELSE ApplyUpdates(Tail(updates), ApplyUpdate(Head(updates), state))

\* the orders in which the updates of one handler can be applied, as
\* sequences of positions in the queue: each hook keeps the order of its
\* calls, the hooks are independent of each other
HookOrders(updates) ==
    LET n == Len(updates)
    IN  {f \in [1..n -> 1..n] :
            /\ \A i, j \in 1..n : i # j => f[i] # f[j]
            /\ \A i, j \in 1..n :
                   (i < j /\ updates[f[i]].hook = updates[f[j]].hook)
                       => f[i] < f[j]}

\* the condition under which the mount effect and handleSubmit call
\* fetchExternalData
NeedsFetch(data) ==
    \/ ~(\/ Truthy(data.interestRates.conventional)
         \/ Truthy(data.interestRates.fha))
    \/ ~Truthy(data.propertyTax)
    \/ ~Truthy(data.propertyInsurance)

\* fetchExternalData goes on to the service (it returns at once without
\* the state or the city)
CanFetch == location.state # "" /\ location.city # ""

\* dataToSave of handleSubmit, built from the form state it is given
DataToSave(form, data) ==
    [loanType |-> form.loanType,
     ltv |-> form.ltv,
     ongoingMIP |-> form.ongoingMIP,
     interestRates |->
         [conventional |-> IF data.interestRates.conventional # NULL
                           THEN data.interestRates.conventional
                           ELSE Some(7000),
          fha |-> IF data.interestRates.fha # NULL
                  THEN data.interestRates.fha ELSE Some(6750)],
     propertyTax |-> IF Truthy(data.propertyTax) THEN data.propertyTax
                     ELSE Some(1000),
     propertyInsurance |-> IF Truthy(data.propertyInsurance)
                           THEN data.propertyInsurance ELSE Some(1200)]

\* what getInterestRates, getPropertyTaxRate and getPropertyInsurance can
\* deliver: each returns a number, parsed from the response or a fallback
FetchOutcomes ==
    [interestRates : {[conventional |-> Some(0), fha |-> Some(0)],
                      [conventional |-> Some(7125), fha |-> Some(6875)]},
     propertyTax : {Some(0), Some(1100)},
     propertyInsurance : {Some(1850)}]

Locations == {[city |-> "Austin", state |-> "TX", zipCode |-> "78701"]}

GoalValues == [targetFICO : {Some(720)}, savingRate : {Some(10)}]

\* externalFetch while LoanDetailsStep is mounted: who awaits
\* fetchExternalData ("idle": no call in progress) and the form state that
\* caller's closure holds
NoData ==
    [interestRates |-> [conventional |-> NULL, fha |-> NULL],
     propertyTax |-> NULL, propertyInsurance |-> NULL]

Idle ==
    [by |-> "idle",
     form |-> [loanType |-> "conventional", ltv |-> Tenths(80),
               ongoingMIP |-> NULL],
     data |-> NoData]

Fetching(caller) == [by |-> caller, form |-> formData, data |-> formFetched]

FormShown == externalFetch # NULL /\ externalFetch[1].by = "idle"

\* a handler of a step runs between renders, after the effects
HandlerOf(step) == currentStep = step /\ ~guardPending

\* LocationStep stores a complete location and shows FinancialStep
SubmitLocation ==
    /\ HandlerOf(0)
    /\ \E value \in Locations :
           SetUserData([UserData EXCEPT !.location = value])
    /\ currentStep' = 1
    /\ guardPending' = TRUE
    /\ redirections' = 0
    /\ UNCHANGED <<aside, formData, formFetched, externalFetch,
                   validationError, isCalculating>>

\* the values FinancialStep accepts and stores
WizardFinancials ==
    [annualIncome : ResultsIncomes, monthlyDebts : ResultsDebts,
     ficoScore : {700}, mitigatingFactors : {<<>>}]

\* FinancialStep.handleSubmit with a valid form
SubmitFinancials ==
    /\ HandlerOf(1)
    /\ \E value \in WizardFinancials :
           SetUserData([UserData EXCEPT !.financials = value])
    /\ currentStep' = 2
    /\ guardPending' = TRUE
    /\ redirections' = 0
    /\ UNCHANGED <<aside, formData, formFetched, externalFetch,
                   validationError, isCalculating>>

\* the Back button of FinancialStep
FinancialsBack ==
    /\ HandlerOf(1)
    /\ currentStep' = 0
    /\ guardPending' = TRUE
    /\ redirections' = 0
    /\ UNCHANGED <<aside, userDataVars, formData, formFetched, externalFetch,
                   validationError, isCalculating>>

\* LoanDetailsStep is mounted: formData is read from userData, the MIP
\* effect runs, and the mount effect calls fetchExternalData when data are
\* missing.  The step validation effect reads nothing the mount writes, so
\* their order is left open.
LoanDetailsStepMounts ==
    /\ currentStep = 2
    /\ externalFetch = NULL
    /\ formData' = MipEffect([loanType |-> loanType, ltv |-> ltv,
                              ongoingMIP |-> ongoingMIP])
    /\ formFetched' =
           [interestRates |-> interestRates,
            propertyTax |-> IF Truthy(propertyTax) THEN propertyTax
                            ELSE NULL,
            propertyInsurance |-> IF Truthy(propertyInsurance)
                                  THEN propertyInsurance ELSE NULL]
    /\ externalFetch' =
           IF NeedsFetch(formFetched') /\ CanFetch
           THEN Some([by |-> "mount", form |-> formData',
                      data |-> formFetched'])
           ELSE Some(Idle)
    /\ UNCHANGED <<aside, userDataVars, currentStep, guardPending,
                   redirections, validationError, isCalculating>>

\* the Refresh Data button, shown with the summary of the retrieved data
RefreshData ==
    /\ HandlerOf(2)
    /\ FormShown
    /\ \/ Truthy(formFetched.interestRates.conventional)
       \/ Truthy(formFetched.interestRates.fha)
       \/ Truthy(formFetched.propertyTax)
       \/ Truthy(formFetched.propertyInsurance)
    /\ CanFetch
    /\ externalFetch' = Some(Fetching("refresh"))
    /\ UNCHANGED <<aside, userDataVars, currentStep, guardPending,
                   redirections, validationError, isCalculating, formData,
                   formFetched>>

\* fetchExternalData, called by the mount effect or by Refresh Data,
\* returns: the fetched values are in formData and the form is shown again
FetchExternalDataReturns ==
    /\ externalFetch # NULL
    /\ externalFetch[1].by \in {"mount", "refresh"}
    /\ formFetched' \in FetchOutcomes
    /\ externalFetch' = Some(Idle)
    /\ UNCHANGED <<aside, userDataVars, currentStep, guardPending,
                   redirections, validationError, isCalculating, formData>>

\* the render after updateLoanDetails(dataToSave) and setCurrentStep(3):
\* LoanDetailsStep is unmounted and ResultsStep mounted
SaveAndShowResults(dataToSave) ==
    /\ SetUserData([UserData EXCEPT !.loanDetails = dataToSave])
    /\ currentStep' = 3
    /\ guardPending' = TRUE
    /\ redirections' = 0
    /\ externalFetch' = NULL
    /\ isCalculating' = TRUE
    /\ validationError' = NULL

\* handleSubmit of LoanDetailsStep up to its await, or to its end when it
\* awaits nothing
HandleSubmit ==
    /\ HandlerOf(2)
    /\ FormShown
    /\ IF NeedsFetch(formFetched) /\ CanFetch
       THEN /\ externalFetch' = Some(Fetching("submit"))
            /\ UNCHANGED <<userDataVars, currentStep, guardPending,
                           redirections, validationError, isCalculating,
                           formFetched>>
       ELSE /\ SaveAndShowResults(DataToSave(formData, formFetched))
            /\ UNCHANGED formFetched
    /\ UNCHANGED <<aside, formData>>

\* fetchExternalData returns to handleSubmit: the fetched values are in
\* formData, and handleSubmit goes on with the formData of its closure
HandleSubmitContinues ==
    /\ externalFetch # NULL
    /\ externalFetch[1].by = "submit"
    /\ formFetched' \in FetchOutcomes
    /\ SaveAndShowResults(DataToSave(externalFetch[1].form,
                                     externalFetch[1].data))
    /\ UNCHANGED <<aside, formData>>

\* the Back button of LoanDetailsStep
LoanDetailsBack ==
    /\ HandlerOf(2)
    /\ FormShown
    /\ currentStep' = 1
    /\ guardPending' = TRUE
    /\ redirections' = 0
    /\ externalFetch' = NULL
    /\ UNCHANGED <<aside, userDataVars, formData, formFetched,
                   validationError, isCalculating>>

\* the Back button of ResultsStep
GoToPreviousStep ==
    /\ HandlerOf(3)
    /\ ~isCalculating
    /\ currentStep' = 2
    /\ guardPending' = TRUE
    /\ redirections' = 0
    /\ UNCHANGED <<aside, userDataVars, formData, formFetched, externalFetch,
                   validationError, isCalculating>>

\* the Goal Setting button of ResultsStep, shown without a validation error
GoToGoalSetting ==
    /\ HandlerOf(3)
    /\ ~isCalculating
    /\ validationError = NULL
    /\ currentStep' = 4
    /\ guardPending' = TRUE
    /\ redirections' = 0
    /\ UNCHANGED <<aside, userDataVars, formData, formFetched, externalFetch,
                   validationError, isCalculating>>

\* Save Goals: handleSubmit of GoalSettingStep
SaveGoals ==
    /\ HandlerOf(4)
    /\ \E g \in GoalValues :
           SetUserData(ApplyUpdates(<<UpdateGoals(g)>>,
                                    [userData |-> UserData,
                                     currentStep |-> currentStep]).userData)
    /\ guardPending' = TRUE
    /\ redirections' = 0
    /\ UNCHANGED <<aside, currentStep, formData, formFetched, externalFetch,
                   validationError, isCalculating>>

\* the Back button of GoalSettingStep: ResultsStep is mounted anew
GoalSettingBack ==
    /\ HandlerOf(4)
    /\ currentStep' = 3
    /\ guardPending' = TRUE
    /\ redirections' = 0
    /\ isCalculating' = TRUE
    /\ validationError' = NULL
    /\ UNCHANGED <<aside, userDataVars, formData, formFetched,
                   externalFetch>>

\* Start New Calculation: handleSubmit() and resetCalculator() queue
\* updateGoals(goals), setUserData(defaultUserData) and setCurrentStep(0)
StartNewCalculation ==
    /\ HandlerOf(4)
    /\ \E g \in GoalValues :
           LET queue == <<UpdateGoals(g), ReplaceUserData(defaultUserData),
                          SetStep(0)>>
           IN  \E order \in HookOrders(queue) :
                   LET next == ApplyUpdates(
                                   [i \in 1..Len(queue) |-> queue[order[i]]],
                                   [userData |-> UserData,
                                    currentStep |-> currentStep])
                   IN  /\ SetUserData(next.userData)
                       /\ currentStep' = next.currentStep
    /\ guardPending' = TRUE
    /\ redirections' = 0
    /\ UNCHANGED <<aside, formData, formFetched, externalFetch,
                   validationError, isCalculating>>

\* the application as MortgageProvider creates it
InitWizard ==
    /\ annualIncome = defaultUserData.financials.annualIncome
    /\ monthlyDebts = defaultUserData.financials.monthlyDebts
    /\ ficoScore = defaultUserData.financials.ficoScore
    /\ mitigatingFactors = defaultUserData.financials.mitigatingFactors
    /\ loanType = defaultUserData.loanDetails.loanType
    /\ ltv = defaultUserData.loanDetails.ltv
    /\ interestRates = defaultUserData.loanDetails.interestRates
    /\ propertyTax = defaultUserData.loanDetails.propertyTax
    /\ propertyInsurance = defaultUserData.loanDetails.propertyInsurance
    /\ pmiRate = 0
    /\ termYears = DEFAULT_TERM_YEARS
    /\ NoArguments
    /\ NoOutputs
    /\ AppIdle

NextWizard ==
    \/ SubmitLocation
    \/ SubmitFinancials
    \/ FinancialsBack
    \/ LoanDetailsStepMounts
    \/ RefreshData
    \/ FetchExternalDataReturns
    \/ HandleSubmit
    \/ HandleSubmitContinues
    \/ LoanDetailsBack
    \/ CalculateResults
    \/ GoToPreviousStep
    \/ GoToGoalSetting
    \/ SaveGoals
    \/ GoalSettingBack
    \/ StartNewCalculation
    \/ StepValidationEffect

SpecWizard == InitWizard /\ [][NextWizard]_vars

-----------------------------------------------------------------------------
(* Claims about the wizard *)

\* the data the step needs are in userData
StepDataPresent ==
    /\ currentStep = 1 => (location.city # "" /\ location.state # "")
    /\ currentStep = 2 => annualIncome # 0
    /\ currentStep = 3 =>
           /\ \/ Truthy(interestRates.conventional)
              \/ Truthy(interestRates.fha)
           /\ Truthy(propertyTax)

C28_SubmitPassesGuard ==
    [][(currentStep = 2 /\ currentStep' = 3)
           => /\ interestRates'.conventional # NULL
              /\ interestRates'.fha # NULL
              /\ propertyTax' # NULL
              /\ propertyInsurance' # NULL
              /\ stepGuard(3, location', annualIncome', interestRates',
                           propertyTax') = 3]_vars

\* the value saved is the value fetched, or the default where the fetch
\* delivered none
SavedIsFetched(saved, fetched, default) ==
    \/ saved = fetched
    \/ ~Truthy(fetched) /\ saved = Some(default)

\* C29: when handleSubmit has awaited fetchExternalData, the rates, the
\* property tax and the insurance it saves are the fetched ones; a default
\* (7.0, 6.75, 1.0, 1200) is saved only for a value the fetch did not
\* deliver.
C29_SavesFetchedValues ==
    [][(/\ externalFetch # NULL
        /\ externalFetch[1].by = "submit"
        /\ currentStep' = 3)
           => /\ SavedIsFetched(interestRates'.conventional,
                                formFetched'.interestRates.conventional,
                                7000)
              /\ SavedIsFetched(interestRates'.fha,
                                formFetched'.interestRates.fha, 6750)
              /\ SavedIsFetched(propertyTax', formFetched'.propertyTax, 1000)
              /\ SavedIsFetched(propertyInsurance',
                                formFetched'.propertyInsurance, 1200)]_vars

\* C30: Start New Calculation leaves userData equal to defaultUserData, the
\* goals included, and currentStep 0, in whatever order the queues of the
\* two hooks are applied.
C30_ResetRestoresDefaults ==
    [][(currentStep = 4 /\ location' # location)
           => /\ UserData' = defaultUserData
              /\ currentStep' = 0]_vars

\* the wizard is back at the start after ResultsStep has calculated
C30_Witness ==
    /\ currentStep = 0
    /\ ~isCalculating
    /\ UserData = defaultUserData

====
